---- MODULE Spec2Model ----
(***************************************************************************)
(* The conversational streaming orchestration of the ai-service:           *)
(* ChatService.stream_response / generate_response / regenerate_response   *)
(* over the message and session stores (MessageService, SessionService)    *)
(* and the canonical provider stream (AIService.stream_chat_completion).   *)
(*                                                                         *)
(* Strings are sequences of fragments: "Hel" + "lo " is <<"Hel", "lo ">>,  *)
(* string concatenation is \o and the empty string is <<>>.                *)
(* A timestamp taken with datetime.now() by exchange t is the stamp Now(t), *)
(* a field that was never set (None) is NoStamp.  created_at is the order  *)
(* of insertion, which is the order of the sequence `messages`.            *)
(***************************************************************************)
EXTENDS Integers, Sequences, FiniteSets, TLC

\* ------------------------------------------------------------------ bounds
\* provider chunks read in one stream before it ends
MaxChunks == 1
\* sessions ever created
MaxSessions == 2
\* provider chunks read in one stream when a single exchange runs alone
MaxChunksAlone == 3
\* words of a request content handed to the title generator
MaxWords == 3

\* ------------------------------------------------------- program constants
\* _get_conversation_context(limit=50)
ContextLimit == 50
\* _get_conversation_context_up_to_message: get_session_messages(limit=1000)
UpToLimit == 1000
\* ai_message_id = None, session_id = None
NoId == 0
\* completed_at / regenerated_at / last_activity = None
NoStamp == [by |-> "none", n |-> 0]
\* datetime.now() as exchange t takes it
Now(t) == [by |-> "exchange", n |-> t]
\* created_at of the message inserted with this id
CreatedAt(id) == [by |-> "insert", n |-> id]
\* _generate_session_title(max_length=50)
TitleLimit == 50

\* the exchanges: two requests in flight in the one event loop
Tasks == {1, 2}
Users == {"alice", "bob"}
\* the contents a request can carry
Contents == {<<"Hi">>, <<"Why">>}
\* the content fragments a provider chunk can carry
Deltas == {"Hel", "lo "}

VARIABLES
    sessions,          \* db.sessions: session id -> document
    messages,          \* db.messages: documents in created_at order
    next_session_id,   \* the ObjectId the next inserted session gets
    next_message_id,   \* the ObjectId the next inserted message gets
    task               \* per exchange: its position and its local variables

vars == <<sessions, messages, next_session_id, next_message_id, task>>

\* ------------------------------------------------------------ small helpers
Reverse(seq) == [i \in 1..Len(seq) |-> seq[Len(seq) + 1 - i]]

Min(a, b) == IF a < b THEN a ELSE b

\* the index in `messages` of the document with _id = id, 0 if there is none
IndexOf(msgs, id) ==
    IF \E i \in 1..Len(msgs) : msgs[i].id = id
    THEN CHOOSE i \in 1..Len(msgs) : msgs[i].id = id
    ELSE 0

\* ------------------------------------------------------------ SessionService
\* Session(...) as create_session builds it
NewSession(user_id, title) ==
    [user_id |-> user_id, title |-> title, status |-> "active",
     is_archived |-> FALSE, message_count |-> 0, last_activity |-> NoStamp]

\* SessionFound with the user_id of the query left out
SessionFound_AnyOwner(sess, session_id, user_id) ==
    session_id \in DOMAIN sess

\* db.sessions.find_one({"_id": session_id, "user_id": user_id}) is not None
SessionFound(sess, session_id, user_id) ==
    session_id \in DOMAIN sess /\ sess[session_id].user_id = user_id

\* Session.update_from_dict: updatable_fields (those the model keeps)
SessionUpdatableFields ==
    {"title", "status", "last_activity", "message_count", "is_archived"}

\* SessionService.update_session: read the document, update_from_dict, write
\* it back; None (no write) when the session is not the user's
UpdateSession(sess, session_id, user_id, update_data) ==
    IF ~SessionFound(sess, session_id, user_id) THEN sess
    ELSE [sess EXCEPT ![session_id] =
            [f \in DOMAIN @ |->
                IF f \in DOMAIN update_data \cap SessionUpdatableFields
                THEN update_data[f] ELSE @[f]]]

\* ------------------------------------------------------------ MessageService
\* the message document create_message inserts
MessageDoc(id, user_id, session_id, role, content, status) ==
    [id |-> id, session_id |-> session_id, user_id |-> user_id, role |-> role,
     content |-> content, status |-> status, metadata |-> "{}",
     completed_at |-> NoStamp, regenerated_at |-> NoStamp]

\* MessageService._update_session_stats: message_count and last_activity of
\* the session from an aggregation over its messages
UpdateSessionStats(sess, msgs, session_id) ==
    LET mine == SelectSeq(msgs, LAMBDA m : m.session_id = session_id)
    IN  IF Len(mine) = 0 \/ session_id \notin DOMAIN sess THEN sess
        ELSE [sess EXCEPT ![session_id].message_count = Len(mine),
                          ![session_id].last_activity =
                              CreatedAt(mine[Len(mine)].id)]

\* MessageService.create_message raises ValueError unless the session is the user's
CanCreateMessage(sess, user_id, session_id) ==
    SessionFound(sess, session_id, user_id)

\* MessageService.create_message: the store after the insert
MessagesAfterCreate(msgs, id, user_id, session_id, role, content, status) ==
    Append(msgs, MessageDoc(id, user_id, session_id, role, content, status))

\* MessageService._get_user_session_ids
UserSessionIds(sess, user_id) == {s \in DOMAIN sess : sess[s].user_id = user_id}

\* get_message without the user access check of its query
GetMessage_AnyUser(sess, msgs, message_id, user_id) ==
    IndexOf(msgs, message_id)

\* MessageService.get_message: the index of the message when the user wrote
\* it or owns its session, 0 (None) otherwise
GetMessage(sess, msgs, message_id, user_id) ==
    LET i == IndexOf(msgs, message_id)
    IN  IF i # 0 /\ (msgs[i].user_id = user_id
                     \/ msgs[i].session_id \in UserSessionIds(sess, user_id))
        THEN i ELSE 0

\* MessageService.update_message: allowed_fields (those the model keeps)
AllowedFields == {"content", "metadata", "status", "completed_at", "regenerated_at"}

\* MessageService.update_message: $set of the allowed fields of update_data
\* on the message, when get_message finds it for the user
UpdateMessage(sess, msgs, message_id, user_id, update_data) ==
    LET i == GetMessage(sess, msgs, message_id, user_id)
    IN  IF i = 0 THEN msgs
        ELSE [msgs EXCEPT ![i] =
                [f \in DOMAIN @ |->
                    IF f \in DOMAIN update_data \cap AllowedFields
                    THEN update_data[f] ELSE @[f]]]

\* MessageService.get_session_messages: the session's messages by created_at
\* ascending, skip(offset).limit(limit)
GetSessionMessages(msgs, session_id, limit, offset) ==
    LET all == SelectSeq(msgs, LAMBDA m : m.session_id = session_id)
    IN  SubSeq(all, offset + 1, Min(Len(all), offset + limit))

\* --------------------------------------------------------------- ChatService
\* the {"role", "content", "timestamp"} entry built from a stored message
AiFormat(m) == [role |-> m.role, content |-> m.content, timestamp |-> CreatedAt(m.id)]

\* ChatService._get_conversation_context: the completed messages of the page,
\* walked with reversed(); [] when get_session_messages raises
GetConversationContext(sess, msgs, session_id, user_id) ==
    IF ~SessionFound(sess, session_id, user_id) THEN <<>>
    ELSE LET page == GetSessionMessages(msgs, session_id, ContextLimit, 0)
             kept == SelectSeq(Reverse(page), LAMBDA m : m.status = "completed")
         IN  [i \in 1..Len(kept) |-> AiFormat(kept[i])]

\* ChatService._get_conversation_context_up_to_message: walk reversed() and
\* break at the first message whose id is message_id
GetConversationContextUpToMessage(sess, msgs, session_id, user_id, message_id) ==
    IF ~SessionFound(sess, session_id, user_id) THEN <<>>
    ELSE LET rev == Reverse(GetSessionMessages(msgs, session_id, UpToLimit, 0))
             hit == {i \in 1..Len(rev) : rev[i].id = message_id}
             stop == IF hit = {} THEN Len(rev) + 1
                     ELSE CHOOSE i \in hit : \A j \in hit : i <= j
             kept == SelectSeq(SubSeq(rev, 1, stop - 1),
                               LAMBDA m : m.status = "completed")
         IN  [i \in 1..Len(kept) |-> AiFormat(kept[i])]

\* "New Chat" and the "..." of _generate_session_title, character by character
NewChat == <<"N", "e", "w", " ", "C", "h", "a", "t">>
Dots == <<".", ".", ".">>
\* the characters str.strip() removes
Whitespace == {" ", "\t", "\n"}

\* str.strip()
Strip(str) ==
    LET kept == {i \in 1..Len(str) : str[i] \notin Whitespace}
    IN  IF kept = {} THEN <<>>
        ELSE SubSeq(str, CHOOSE i \in kept : \A j \in kept : i <= j,
                         CHOOSE i \in kept : \A j \in kept : j <= i)

\* str.rsplit(' ', 1)[0]: what stands before the last space, the whole
\* string when it has no space
RSplitHead(str) ==
    LET spaces == {i \in 1..Len(str) : str[i] = " "}
    IN  IF spaces = {} THEN str
        ELSE SubSeq(str, 1, (CHOOSE i \in spaces : \A j \in spaces : j <= i) - 1)

\* GenerateSessionTitle without the final `or "New Chat"`
GenerateSessionTitle_NoDefault(message_content) ==
    IF message_content = <<>> THEN NewChat
    ELSE LET stripped == Strip(message_content)
         IN  IF Len(stripped) > TitleLimit
             THEN RSplitHead(SubSeq(stripped, 1, TitleLimit)) \o Dots
             ELSE stripped

\* ChatService._generate_session_title; a string is its characters here (a
\* fragment such as "Hi" counts as one)
GenerateSessionTitle(message_content) ==
    IF message_content = <<>> THEN NewChat
    ELSE LET stripped == Strip(message_content)
             title == IF Len(stripped) > TitleLimit
                      THEN RSplitHead(SubSeq(stripped, 1, TitleLimit)) \o Dots
                      ELSE stripped
         IN  IF title = <<>> THEN NewChat ELSE title

\* an outbound event; message_id, content and session_id are NoId, <<>> and
\* NoId when the event does not carry them
Event(type, message_id, content) ==
    [type |-> type, message_id |-> message_id, content |-> content,
     session_id |-> NoId, timestamp |-> "now"]

\* str(e) of the exception a failing store call raises
StorageFailure == <<"ServerSelectionTimeoutError: mongodb:27017">>

\* an exchange that has not been requested yet
IdleTask ==
    [kind |-> "none", pc |-> "idle", user_id |-> "", session_id |-> NoId,
     message_content |-> <<>>, user_message_id |-> NoId, ai_message_id |-> NoId,
     message_id |-> NoId, conversation_history |-> <<>>, has_history |-> FALSE,
     ai_response_content |-> <<>>, chunks |-> 0, events |-> <<>>,
     message_updated |-> FALSE, session_updated |-> FALSE,
     created_session |-> FALSE,
     attachments |-> <<>>, pending_attachments |-> <<>>,
     processed_attachments |-> <<>>, system_prompt |-> <<>>,
     provider_calls |-> 0, provider_messages |-> <<>>]

Init ==
    /\ sessions = <<>>
    /\ messages = <<>>
    /\ next_session_id = 1
    /\ next_message_id = 1
    /\ task = [t \in Tasks |-> IdleTask]

\* Exchanges are requested in the order of their numbers, and the first one
\* is alice's: exchanges and users are interchangeable from the empty
\* store.  The code never inspects the text of a message, so the first
\* request carries "Hi" and the later one "Why", and a message is told from
\* every other by its text.
MayStart(t) == task[t].pc = "idle" /\ \A o \in Tasks : o < t => task[o].pc # "idle"
RequestUsers(t) == IF t = 1 THEN {"alice"} ELSE Users
RequestContents(t) == IF t = 1 THEN {<<"Hi">>} ELSE Contents \ {<<"Hi">>}

Emit(t, ev) == Append(task[t].events, ev)

\* an exchange slot that is never requested
AbsentTask == [IdleTask EXCEPT !.pc = "absent"]
\* the chunks one provider stream is followed for: longer when the exchange
\* runs alone
ChunkBound ==
    IF \E o \in Tasks : task[o].pc = "absent" THEN MaxChunksAlone ELSE MaxChunks

\* ---------------------------------------------------------------------------
\* AttachmentService and AIService._process_attachments

\* a content type "major/minor" is the pair <<major, minor>>, "" is <<>>
StartsWith(type, major) == Len(type) >= 1 /\ type[1] = major

\* db.attachments: the records create_attachment inserts (the keys the
\* provider layer could read: user_id, filename, content_type)
AttachmentStore ==
    (1 :> [user_id |-> "alice", filename |-> "cat.png",
           content_type |-> <<"image", "png">>]) @@
    (2 :> [user_id |-> "alice", filename |-> "notes.txt",
           content_type |-> <<"text", "plain">>]) @@
    (3 :> [user_id |-> "alice", filename |-> "paper.pdf",
           content_type |-> <<"application", "pdf">>]) @@
    (4 :> [user_id |-> "bob", filename |-> "logs.zip",
           content_type |-> <<"application", "zip">>])

\* attachment ids a request may name; 5 names no record
AttachmentIds == {1, 2, 3, 4, 5}

\* get_attachment: find_one({"_id": attachment_id, "user_id": user_id});
\* NoAttachment is its None
NoAttachment == [id |-> NoId]

GetAttachment(attachment_id, user_id) ==
    IF attachment_id \in DOMAIN AttachmentStore
       /\ AttachmentStore[attachment_id].user_id = user_id
    THEN [id |-> attachment_id, file_exists |-> TRUE] @@ AttachmentStore[attachment_id]
    ELSE NoAttachment

\* dict.get(key, default)
Get(dict, key, default) == IF key \in DOMAIN dict THEN dict[key] ELSE default

\* _process_attachments, lines 224-244: the text one attachment contributes
AttachmentText(attachment) ==
    LET file_type == Get(attachment, "file_type", <<>>)
        file_content == Get(attachment, "content", <<>>)
        file_name == Get(attachment, "filename", "")
    IN  IF StartsWith(file_type, "image")
        THEN <<"\n\n[Image attached: ", file_name, "]">>
        ELSE IF StartsWith(file_type, "text") \/ file_type = <<"application", "json">>
        THEN <<"\n\n[File: ", file_name, "]\n">> \o file_content \o <<"\n[End of file]">>
        ELSE IF file_type = <<"application", "pdf">>
        THEN <<"\n\n[PDF attached: ", file_name, "]">>
        ELSE <<"\n\n[File attached: ", file_name, " (">> \o file_type \o <<")]">>

RECURSIVE AttachmentsText(_)
AttachmentsText(attachments) ==
    IF attachments = <<>> THEN <<>>
    ELSE AttachmentText(Head(attachments)) \o AttachmentsText(Tail(attachments))

\* _process_attachments, lines 217-249: the scan runs from the end of the list
\* and stops at the first user-role element it meets
ProcessAttachments(msgs, attachments) ==
    LET user_indexes == {i \in 1..Len(msgs) : msgs[i].role = "user"}
    IN  IF user_indexes = {} THEN msgs
        ELSE LET i == CHOOSE k \in user_indexes : \A o \in user_indexes : o <= k
             IN  [msgs EXCEPT ![i].content = @ \o AttachmentsText(attachments)]

\* stream_chat_completion, lines 70-77: attachments are processed only when
\* the list is not empty
StreamChatMessages(msgs, attachments) ==
    IF attachments # <<>> THEN ProcessAttachments(msgs, attachments) ELSE msgs

\* WithSystemPrompt with the system prompt added after the context
WithSystemPrompt_Appends(msgs, system_prompt) ==
    IF system_prompt # <<>>
    THEN msgs \o <<[role |-> "system", content |-> system_prompt]>>
    ELSE msgs

\* generate_response, lines 116-133: the system prompt goes first
WithSystemPrompt(msgs, system_prompt) ==
    IF system_prompt # <<>>
    THEN <<[role |-> "system", content |-> system_prompt]>> \o msgs
    ELSE msgs

\* stream_response, lines 217-225: the request names a session that
\* get_session does not find for the user
StreamSessionNotFound(t) ==
    /\ MayStart(t)
    /\ \E user_id \in RequestUsers(t), session_id \in 1..next_session_id,
          content \in RequestContents(t) :
        /\ ~SessionFound(sessions, session_id, user_id)
        /\ task' = [task EXCEPT ![t] =
              [@ EXCEPT !.kind = "stream", !.pc = "done", !.user_id = user_id,
                        !.session_id = session_id, !.message_content = content,
                        !.events = Emit(t, Event("error", NoId, <<"Session not found">>))]]
    /\ UNCHANGED <<sessions, messages, next_session_id, next_message_id>>

\* StreamSessionFound with a session created although one was named
StreamSessionFound_CreatesSession(t) ==
    /\ MayStart(t)
    /\ \E user_id \in RequestUsers(t), session_id \in DOMAIN sessions,
          content \in RequestContents(t) :
        /\ SessionFound(sessions, session_id, user_id)
        /\ sessions' = sessions @@
              (next_session_id :> NewSession(user_id, GenerateSessionTitle(content)))
        /\ task' = [task EXCEPT ![t] =
              [@ EXCEPT !.kind = "stream", !.pc = "create_user", !.user_id = user_id,
                        !.session_id = session_id, !.message_content = content]]
    /\ next_session_id' = next_session_id + 1
    /\ UNCHANGED <<messages, next_message_id>>

\* stream_response, lines 217-219: the named session is the user's
StreamSessionFound(t) ==
    /\ MayStart(t)
    /\ \E user_id \in RequestUsers(t), session_id \in DOMAIN sessions,
          content \in RequestContents(t) :
        /\ SessionFound(sessions, session_id, user_id)
        /\ task' = [task EXCEPT ![t] =
              [@ EXCEPT !.kind = "stream", !.pc = "create_user", !.user_id = user_id,
                        !.session_id = session_id, !.message_content = content]]
    /\ UNCHANGED <<sessions, messages, next_session_id, next_message_id>>

\* stream_response, lines 226-239: no session id, create_session and the
\* session_created event
StreamNewSession(t, user_id, content) ==
    /\ next_session_id <= MaxSessions
    /\ sessions' = sessions @@
          (next_session_id :> NewSession(user_id, GenerateSessionTitle(content)))
    /\ task' = [task EXCEPT ![t] =
          [@ EXCEPT !.kind = "stream", !.pc = "create_user", !.user_id = user_id,
                    !.session_id = next_session_id, !.message_content = content,
                    !.created_session = TRUE,
                    !.events = Emit(t, [Event("session_created", NoId, <<>>)
                                           EXCEPT !.session_id = next_session_id])]]
    /\ next_session_id' = next_session_id + 1
    /\ UNCHANGED <<messages, next_message_id>>

StreamCreateSession(t) ==
    /\ MayStart(t)
    /\ \E user_id \in RequestUsers(t), content \in RequestContents(t) :
        StreamNewSession(t, user_id, content)

\* MessageService.create_message as an exchange calls it: insert the document
\* and refresh the session's statistics
CreateMessage(user_id, session_id, role, content, status) ==
    /\ CanCreateMessage(sessions, user_id, session_id)
    /\ messages' = MessagesAfterCreate(messages, next_message_id, user_id,
                                       session_id, role, content, status)
    /\ sessions' = UpdateSessionStats(sessions, messages', session_id)
    /\ next_message_id' = next_message_id + 1
    /\ UNCHANGED next_session_id

\* stream_response, lines 241-254: the user message (status defaults to
\* completed) and the user_message_created event
StreamCreateUserMessage(t) ==
    /\ task[t].pc = "create_user"
    /\ CreateMessage(task[t].user_id, task[t].session_id, "user",
                     task[t].message_content, "completed")
    /\ task' = [task EXCEPT ![t] =
          [@ EXCEPT !.pc = "get_context", !.user_message_id = next_message_id,
                    !.events = Emit(t, Event("user_message_created", next_message_id,
                                             task[t].message_content))]]

\* stream_response, line 257: the conversation history
StreamGetContext(t) ==
    /\ task[t].pc = "get_context"
    /\ task' = [task EXCEPT ![t] =
          [@ EXCEPT !.pc = IF task[t].pending_attachments = <<>>
                            THEN "create_placeholder" ELSE "attachments",
                    !.has_history = TRUE,
                    !.conversation_history =
                        GetConversationContext(sessions, messages,
                                               task[t].session_id, task[t].user_id)]]
    /\ UNCHANGED <<sessions, messages, next_session_id, next_message_id>>

\* StreamCreatePlaceholder with ai_message_started carrying the user message's id
StreamCreatePlaceholder_UserMessageId(t) ==
    /\ task[t].pc = "create_placeholder"
    /\ CreateMessage(task[t].user_id, task[t].session_id, "assistant", <<>>, "generating")
    /\ task' = [task EXCEPT ![t] =
          [@ EXCEPT !.pc = "streaming", !.ai_message_id = next_message_id,
                    !.provider_calls = @ + 1,
                    !.provider_messages =
                        StreamChatMessages(task[t].conversation_history,
                                           task[t].processed_attachments),
                    !.events = Emit(t, Event("ai_message_started",
                                             task[t].user_message_id, <<>>))]]

\* stream_response, lines 280-297: the placeholder and ai_message_started;
\* resumed after the yield, the generator calls stream_chat_completion
StreamCreatePlaceholder(t) ==
    /\ task[t].pc = "create_placeholder"
    /\ CreateMessage(task[t].user_id, task[t].session_id, "assistant", <<>>, "generating")
    /\ task' = [task EXCEPT ![t] =
          [@ EXCEPT !.pc = "streaming", !.ai_message_id = next_message_id,
                    !.provider_calls = @ + 1,
                    !.provider_messages =
                        StreamChatMessages(task[t].conversation_history,
                                           task[t].processed_attachments),
                    !.events = Emit(t, Event("ai_message_started", next_message_id, <<>>))]]

\* StreamContentChunk with every delta written through to the stored message
StreamContentChunk_Persists(t) ==
    /\ task[t].pc = "streaming"
    /\ task[t].chunks < ChunkBound
    /\ \E content_delta \in Deltas :
        /\ task' = [task EXCEPT ![t] =
              [@ EXCEPT !.chunks = @ + 1,
                        !.ai_response_content = @ \o <<content_delta>>,
                        !.events = Emit(t, Event("content_delta", task[t].ai_message_id,
                                                 <<content_delta>>))]]
        /\ messages' = UpdateMessage(sessions, messages, task[t].ai_message_id,
                          task[t].user_id,
                          [content |-> task[t].ai_response_content \o <<content_delta>>])
    /\ UNCHANGED <<sessions, next_session_id, next_message_id>>

\* StreamContentChunk with the delta put in front of the buffer
StreamContentChunk_Prepends(t) ==
    /\ task[t].pc = "streaming"
    /\ task[t].chunks < ChunkBound
    /\ \E content_delta \in Deltas :
        task' = [task EXCEPT ![t] =
          [@ EXCEPT !.chunks = @ + 1,
                    !.ai_response_content = <<content_delta>> \o @,
                    !.events = Emit(t, Event("content_delta", task[t].ai_message_id,
                                             <<content_delta>>))]]
    /\ UNCHANGED <<sessions, messages, next_session_id, next_message_id>>

\* StreamContentChunk with the buffer kept on the shared ChatService object:
\* a delta lands in the buffer of every exchange that is streaming
StreamContentChunk_SharedBuffer(t) ==
    /\ task[t].pc = "streaming"
    /\ task[t].chunks < ChunkBound
    /\ \E content_delta \in Deltas :
        task' = [o \in Tasks |->
          IF o = t
          THEN [task[o] EXCEPT !.chunks = @ + 1,
                    !.ai_response_content = @ \o <<content_delta>>,
                    !.events = Emit(t, Event("content_delta", task[t].ai_message_id,
                                             <<content_delta>>))]
          ELSE IF task[o].pc = "streaming"
          THEN [task[o] EXCEPT !.ai_response_content = @ \o <<content_delta>>]
          ELSE task[o]]
    /\ UNCHANGED <<sessions, messages, next_session_id, next_message_id>>

\* stream_response, lines 298-307: a content chunk
StreamContentChunk(t) ==
    /\ task[t].pc = "streaming"
    /\ task[t].chunks < ChunkBound
    /\ \E content_delta \in Deltas :
        task' = [task EXCEPT ![t] =
          [@ EXCEPT !.chunks = @ + 1,
                    !.ai_response_content = @ \o <<content_delta>>,
                    !.events = Emit(t, Event("content_delta", task[t].ai_message_id,
                                             <<content_delta>>))]]
    /\ UNCHANGED <<sessions, messages, next_session_id, next_message_id>>

\* stream_response, lines 309-316: a function_call chunk
StreamFunctionCallChunk(t) ==
    /\ task[t].pc = "streaming"
    /\ task[t].chunks < ChunkBound
    /\ task' = [task EXCEPT ![t] =
          [@ EXCEPT !.chunks = @ + 1,
                    !.events = Emit(t, Event("function_call", task[t].ai_message_id, <<>>))]]
    /\ UNCHANGED <<sessions, messages, next_session_id, next_message_id>>

\* stream_response, lines 297-334: a completion chunk matches no branch
StreamCompletionChunk(t) ==
    /\ task[t].pc = "streaming"
    /\ task[t].chunks < ChunkBound
    /\ task' = [task EXCEPT ![t] = [@ EXCEPT !.chunks = @ + 1]]
    /\ UNCHANGED <<sessions, messages, next_session_id, next_message_id>>

\* StreamErrorChunk with the return after the error event forgotten
StreamErrorChunk_NoReturn(t) ==
    /\ task[t].pc = "streaming"
    /\ task[t].chunks < ChunkBound
    /\ task' = [task EXCEPT ![t] =
          [@ EXCEPT !.chunks = @ + 1,
                    !.events = Emit(t, Event("error", task[t].ai_message_id,
                                             <<"provider error">>))]]
    /\ UNCHANGED <<sessions, messages, next_session_id, next_message_id>>

\* StreamErrorChunk with the completion call issued again after the error
StreamErrorChunk_Retries(t) ==
    /\ task[t].pc = "streaming"
    /\ task' = [task EXCEPT ![t] = [@ EXCEPT !.provider_calls = @ + 1]]
    /\ UNCHANGED <<sessions, messages, next_session_id, next_message_id>>

\* stream_response, lines 327-334: an error chunk: the error event, return
StreamErrorChunk(t) ==
    /\ task[t].pc = "streaming"
    /\ task' = [task EXCEPT ![t] =
          [@ EXCEPT !.pc = "done",
                    !.events = Emit(t, Event("error", task[t].ai_message_id,
                                             <<"provider error">>))]]
    /\ UNCHANGED <<sessions, messages, next_session_id, next_message_id>>

\* StreamFinalize with the write applied to the user message's id
StreamFinalize_WrongId(t) ==
    /\ task[t].pc = "streaming"
    /\ messages' = UpdateMessage(sessions, messages, task[t].user_message_id, task[t].user_id,
                      [content |-> task[t].ai_response_content, status |-> "completed",
                       completed_at |-> Now(t)])
    /\ task' = [task EXCEPT ![t] = [@ EXCEPT !.pc = "update_session"]]
    /\ UNCHANGED <<sessions, next_session_id, next_message_id>>

\* stream_response, lines 336-345: the provider stream has ended, the
\* finalize write
StreamFinalize(t) ==
    /\ task[t].pc = "streaming"
    /\ messages' = UpdateMessage(sessions, messages, task[t].ai_message_id, task[t].user_id,
                      [content |-> task[t].ai_response_content, status |-> "completed",
                       completed_at |-> Now(t)])
    /\ task' = [task EXCEPT ![t] = [@ EXCEPT !.pc = "update_session"]]
    /\ UNCHANGED <<sessions, next_session_id, next_message_id>>

\* ChatService._get_session_message_count
GetSessionMessageCount(session_id) == 0

\* stream_response, lines 347-361: the session update and ai_message_completed
StreamUpdateSession(t) ==
    /\ task[t].pc = "update_session"
    /\ sessions' = UpdateSession(sessions, task[t].session_id, task[t].user_id,
                      [last_activity |-> Now(t),
                       message_count |-> GetSessionMessageCount(task[t].session_id)])
    /\ task' = [task EXCEPT ![t] =
          [@ EXCEPT !.pc = "done",
                    !.events = Emit(t, Event("ai_message_completed",
                                             task[t].ai_message_id,
                                             task[t].ai_response_content))]]
    /\ UNCHANGED <<messages, next_session_id, next_message_id>>

\* StreamStorageError with a handler that logs and yields nothing
StreamStorageError_Swallows(t) ==
    /\ task[t].kind = "stream"
    /\ task[t].pc \in {"create_user", "attachments", "create_placeholder",
                       "update_session"}
    /\ task' = [task EXCEPT ![t] = [@ EXCEPT !.pc = "done"]]
    /\ UNCHANGED <<sessions, messages, next_session_id, next_message_id>>

\* stream_response, lines 363-369: a store call raises, the handler emits error
StreamStorageError(t) ==
    /\ task[t].kind = "stream"
    /\ task[t].pc \in {"create_user", "attachments", "create_placeholder",
                       "update_session"}
    /\ task' = [task EXCEPT ![t] =
          [@ EXCEPT !.pc = "done",
                    !.events = Emit(t, Event("error", NoId, StorageFailure))]]
    /\ UNCHANGED <<sessions, messages, next_session_id, next_message_id>>

\* stream_message.generate_stream: the caller goes away and the generator is
\* closed where it stands; GeneratorExit / CancelledError is no Exception, so
\* no handler of stream_response runs
StreamDisconnect(t) ==
    /\ task[t].kind = "stream"
    /\ task[t].pc \in {"create_user", "get_context", "attachments",
                       "create_placeholder", "streaming", "update_session"}
    /\ task' = [task EXCEPT ![t] = [@ EXCEPT !.pc = "cancelled"]]
    /\ UNCHANGED <<sessions, messages, next_session_id, next_message_id>>

StreamResponse(t) ==
    \/ StreamSessionNotFound(t)
    \/ StreamSessionFound(t)
    \/ StreamCreateSession(t)
    \/ StreamCreateUserMessage(t)
    \/ StreamGetContext(t)
    \/ StreamCreatePlaceholder(t)
    \/ StreamContentChunk(t)
    \/ StreamFunctionCallChunk(t)
    \/ StreamCompletionChunk(t)
    \/ StreamErrorChunk(t)
    \/ StreamFinalize(t)
    \/ StreamUpdateSession(t)
    \/ StreamStorageError(t)
    \/ StreamDisconnect(t)

\* generate_response, lines 60-63: the named session is not found, ValueError
GenSessionNotFound(t) ==
    /\ MayStart(t)
    /\ \E user_id \in RequestUsers(t), session_id \in 1..next_session_id,
          content \in RequestContents(t) :
        /\ ~SessionFound(sessions, session_id, user_id)
        /\ task' = [task EXCEPT ![t] =
              [@ EXCEPT !.kind = "generate", !.pc = "raised", !.user_id = user_id,
                        !.session_id = session_id, !.message_content = content]]
    /\ UNCHANGED <<sessions, messages, next_session_id, next_message_id>>

\* generate_response, lines 60-61: the named session is the user's
GenSessionFound(t) ==
    /\ MayStart(t)
    /\ \E user_id \in RequestUsers(t), session_id \in DOMAIN sessions,
          content \in RequestContents(t) :
        /\ SessionFound(sessions, session_id, user_id)
        /\ task' = [task EXCEPT ![t] =
              [@ EXCEPT !.kind = "generate", !.pc = "gather", !.user_id = user_id,
                        !.session_id = session_id, !.message_content = content]]
    /\ UNCHANGED <<sessions, messages, next_session_id, next_message_id>>

\* generate_response, lines 64-70: no session id, create_session
GenCreateSession(t) ==
    /\ MayStart(t)
    /\ next_session_id <= MaxSessions
    /\ \E user_id \in RequestUsers(t), content \in RequestContents(t) :
        /\ sessions' = sessions @@
              (next_session_id :> NewSession(user_id, GenerateSessionTitle(content)))
        /\ task' = [task EXCEPT ![t] =
              [@ EXCEPT !.kind = "generate", !.pc = "gather", !.user_id = user_id,
                        !.session_id = next_session_id, !.message_content = content,
                        !.created_session = TRUE]]
    /\ next_session_id' = next_session_id + 1
    /\ UNCHANGED <<messages, next_message_id>>

\* generate_response, lines 85 and 96-102: the create_message of
\* asyncio.gather(user_message_task, conversation_task, ...)
GenCreateUserMessage(t) ==
    /\ task[t].pc = "gather"
    /\ task[t].user_message_id = NoId
    /\ CreateMessage(task[t].user_id, task[t].session_id, "user",
                     task[t].message_content, "completed")
    /\ task' = [task EXCEPT ![t] = [@ EXCEPT !.user_message_id = next_message_id]]

\* generate_response, lines 86 and 96-103: the _get_conversation_context of
\* the same gather; the two run as concurrent tasks, in either order
GenGetContext(t) ==
    /\ task[t].pc = "gather"
    /\ ~task[t].has_history
    /\ task' = [task EXCEPT ![t] =
          [@ EXCEPT !.has_history = TRUE,
                    !.conversation_history =
                        GetConversationContext(sessions, messages,
                                               task[t].session_id, task[t].user_id)]]
    /\ UNCHANGED <<sessions, messages, next_session_id, next_message_id>>

\* generate_response, lines 106-114: the placeholder, once the gather is done
GenCreatePlaceholder(t) ==
    /\ task[t].pc = "gather"
    /\ task[t].user_message_id # NoId
    /\ task[t].has_history
    /\ task[t].pending_attachments = <<>>
    /\ CreateMessage(task[t].user_id, task[t].session_id, "assistant", <<>>, "generating")
    /\ task' = [task EXCEPT ![t] =
          [@ EXCEPT !.pc = "provider", !.ai_message_id = next_message_id,
                    !.provider_calls = @ + 1,
                    !.provider_messages =
                        WithSystemPrompt(task[t].conversation_history,
                                         task[t].system_prompt)]]

\* GenProviderRaises with the exception swallowed after the failed write: the
\* function goes on to its closing updates
GenProviderRaises_GoesOn(t) ==
    /\ task[t].pc = "provider"
    /\ messages' = UpdateMessage(sessions, messages, task[t].ai_message_id, task[t].user_id,
                      [status |-> "failed", metadata |-> "error"])
    /\ task' = [task EXCEPT ![t] = [@ EXCEPT !.pc = "finish"]]
    /\ UNCHANGED <<sessions, next_session_id, next_message_id>>

\* generate_response, lines 136-146: the completion call raises; the
\* placeholder is marked failed and the exception is raised again
GenProviderRaises(t) ==
    /\ task[t].pc = "provider"
    /\ messages' = UpdateMessage(sessions, messages, task[t].ai_message_id, task[t].user_id,
                      [status |-> "failed", metadata |-> "error"])
    /\ task' = [task EXCEPT ![t] = [@ EXCEPT !.pc = "raised"]]
    /\ UNCHANGED <<sessions, next_session_id, next_message_id>>

\* generate_response, lines 137-139: the completion call returns its content
GenProviderReturns(t) ==
    /\ task[t].pc = "provider"
    /\ \E content \in Deltas :
        task' = [task EXCEPT ![t] =
          [@ EXCEPT !.pc = "finish", !.ai_response_content = <<content>>]]
    /\ UNCHANGED <<sessions, messages, next_session_id, next_message_id>>

\* generate_response, lines 155-168 and 177-180: the update_message of the
\* closing gather
GenUpdateMessage(t) ==
    /\ task[t].pc = "finish"
    /\ ~task[t].message_updated
    /\ messages' = UpdateMessage(sessions, messages, task[t].ai_message_id, task[t].user_id,
                      [content |-> task[t].ai_response_content, status |-> "completed",
                       completed_at |-> Now(t)])
    /\ task' = [task EXCEPT ![t] =
          [@ EXCEPT !.message_updated = TRUE,
                    !.pc = IF task[t].session_updated THEN "returned" ELSE "finish"]]
    /\ UNCHANGED <<sessions, next_session_id, next_message_id>>

\* generate_response, lines 170-180: the update_session of the closing gather
GenUpdateSession(t) ==
    /\ task[t].pc = "finish"
    /\ ~task[t].session_updated
    /\ sessions' = UpdateSession(sessions, task[t].session_id, task[t].user_id,
                      [last_activity |-> Now(t)])
    /\ task' = [task EXCEPT ![t] =
          [@ EXCEPT !.session_updated = TRUE,
                    !.pc = IF task[t].message_updated THEN "returned" ELSE "finish"]]
    /\ UNCHANGED <<messages, next_session_id, next_message_id>>

\* generate_response, lines 190-192: a store call raises and the exception
\* is raised again
GenStorageError(t) ==
    /\ task[t].kind = "generate"
    /\ task[t].pc \in {"gather", "finish"}
    /\ task' = [task EXCEPT ![t] = [@ EXCEPT !.pc = "raised"]]
    /\ UNCHANGED <<sessions, messages, next_session_id, next_message_id>>

GenerateResponse(t) ==
    \/ GenSessionNotFound(t)
    \/ GenSessionFound(t)
    \/ GenCreateSession(t)
    \/ GenCreateUserMessage(t)
    \/ GenGetContext(t)
    \/ GenCreatePlaceholder(t)
    \/ GenProviderRaises(t)
    \/ GenProviderReturns(t)
    \/ GenUpdateMessage(t)
    \/ GenUpdateSession(t)
    \/ GenStorageError(t)

Next == \E t \in Tasks : StreamResponse(t) \/ GenerateResponse(t)

Spec == Init /\ [][Next]_vars

\* ---------------------------------------------------------------------------
\* regenerate_response and the message routes, from a stored conversation

\* a timestamp taken by an exchange that ended before the ones modelled
Past(k) == [by |-> "past", n |-> k]

\* The store after two stream_response exchanges of alice in one session:
\* "Hi" answered with "Hel", then "Why" answered with "lo " (the session
\* update of the second exchange has set message_count to 0), or "Why" with
\* the provider failing at once (the placeholder is left generating).
InitRegen ==
    /\ next_session_id = 2
    /\ next_message_id = 5
    /\ task = [t \in Tasks |-> IdleTask]
    /\ \E second \in {"completed", "generating"} :
        /\ messages =
              << [MessageDoc(1, "alice", 1, "user", <<"Hi">>, "completed") EXCEPT
                    !.completed_at = NoStamp],
                 [MessageDoc(2, "alice", 1, "assistant", <<"Hel">>, "completed") EXCEPT
                    !.completed_at = Past(1)],
                 MessageDoc(3, "alice", 1, "user", <<"Why">>, "completed"),
                 IF second = "completed"
                 THEN [MessageDoc(4, "alice", 1, "assistant", <<"lo ">>, "completed") EXCEPT
                         !.completed_at = Past(2)]
                 ELSE MessageDoc(4, "alice", 1, "assistant", <<>>, "generating") >>
        /\ sessions =
              (1 :> IF second = "completed"
                    THEN [NewSession("alice", <<"Hi">>) EXCEPT !.message_count = 0,
                                                     !.last_activity = Past(2)]
                    ELSE [NewSession("alice", <<"Hi">>) EXCEPT !.message_count = 4,
                                                     !.last_activity = CreatedAt(4)])

\* regenerate_response, lines 461-469: get_message finds nothing for the user
RegenMessageNotFound(t) ==
    /\ MayStart(t)
    /\ \E user_id \in Users, message_id \in 1..next_message_id :
        /\ GetMessage(sessions, messages, message_id, user_id) = 0
        /\ task' = [task EXCEPT ![t] =
              [@ EXCEPT !.kind = "regenerate", !.pc = "done", !.user_id = user_id,
                        !.message_id = message_id,
                        !.events = Emit(t, Event("error", NoId, <<"Message not found">>))]]
    /\ UNCHANGED <<sessions, messages, next_session_id, next_message_id>>

\* regenerate_response, lines 461-471: the original message and its session
RegenGetMessage(t) ==
    /\ MayStart(t)
    /\ \E user_id \in Users, message_id \in 1..next_message_id :
        /\ GetMessage(sessions, messages, message_id, user_id) # 0
        /\ task' = [task EXCEPT ![t] =
              [@ EXCEPT !.kind = "regenerate", !.pc = "regen_context", !.user_id = user_id,
                        !.message_id = message_id,
                        !.session_id = messages[GetMessage(sessions, messages,
                                                           message_id, user_id)].session_id]]
    /\ UNCHANGED <<sessions, messages, next_session_id, next_message_id>>

\* regenerate_response, lines 473-484: the history up to the message
RegenGetContext(t) ==
    /\ task[t].pc = "regen_context"
    /\ task' = [task EXCEPT ![t] =
          [@ EXCEPT !.pc = "regen_mark", !.has_history = TRUE,
                    !.conversation_history =
                        GetConversationContextUpToMessage(sessions, messages,
                            task[t].session_id, task[t].user_id, task[t].message_id)]]
    /\ UNCHANGED <<sessions, messages, next_session_id, next_message_id>>

\* regenerate_response, lines 486-497: status regenerating, regeneration_started
RegenMarkRegenerating(t) ==
    /\ task[t].pc = "regen_mark"
    /\ messages' = UpdateMessage(sessions, messages, task[t].message_id, task[t].user_id,
                      [status |-> "regenerating"])
    /\ task' = [task EXCEPT ![t] =
          [@ EXCEPT !.pc = "regen_streaming", !.provider_calls = @ + 1,
                    !.provider_messages = task[t].conversation_history,
                    !.events = Emit(t, Event("regeneration_started", task[t].message_id, <<>>))]]
    /\ UNCHANGED <<sessions, next_session_id, next_message_id>>

\* regenerate_response, lines 501-511: a content chunk
RegenContentChunk(t) ==
    /\ task[t].pc = "regen_streaming"
    /\ task[t].chunks < MaxChunks
    /\ \E content_delta \in Deltas :
        task' = [task EXCEPT ![t] =
          [@ EXCEPT !.chunks = @ + 1,
                    !.ai_response_content = @ \o <<content_delta>>,
                    !.events = Emit(t, Event("content_delta", task[t].message_id,
                                             <<content_delta>>))]]
    /\ UNCHANGED <<sessions, messages, next_session_id, next_message_id>>

\* regenerate_response, lines 501-520: a function_call or completion chunk
\* matches no branch
RegenOtherChunk(t) ==
    /\ task[t].pc = "regen_streaming"
    /\ task[t].chunks < MaxChunks
    /\ task' = [task EXCEPT ![t] = [@ EXCEPT !.chunks = @ + 1]]
    /\ UNCHANGED <<sessions, messages, next_session_id, next_message_id>>

\* RegenErrorChunk with the content accumulated so far saved as failed
RegenErrorChunk_SavesPartial(t) ==
    /\ task[t].pc = "regen_streaming"
    /\ messages' = UpdateMessage(sessions, messages, task[t].message_id, task[t].user_id,
                      [content |-> task[t].ai_response_content, status |-> "failed"])
    /\ task' = [task EXCEPT ![t] =
          [@ EXCEPT !.pc = "done",
                    !.events = Emit(t, Event("error", task[t].message_id,
                                             <<"provider error">>))]]
    /\ UNCHANGED <<sessions, next_session_id, next_message_id>>

\* regenerate_response, lines 513-520: an error chunk: the error event, return
RegenErrorChunk(t) ==
    /\ task[t].pc = "regen_streaming"
    /\ task' = [task EXCEPT ![t] =
          [@ EXCEPT !.pc = "done",
                    !.events = Emit(t, Event("error", task[t].message_id,
                                             <<"provider error">>))]]
    /\ UNCHANGED <<sessions, messages, next_session_id, next_message_id>>

\* RegenFinalize with the finalize fields of stream_response (completed_at)
RegenFinalize_SetsCompletedAt(t) ==
    /\ task[t].pc = "regen_streaming"
    /\ messages' = UpdateMessage(sessions, messages, task[t].message_id, task[t].user_id,
                      [content |-> task[t].ai_response_content, status |-> "completed",
                       completed_at |-> Now(t), regenerated_at |-> Now(t)])
    /\ task' = [task EXCEPT ![t] =
          [@ EXCEPT !.pc = "done",
                    !.events = Emit(t, Event("regeneration_completed", task[t].message_id,
                                             task[t].ai_response_content))]]
    /\ UNCHANGED <<sessions, next_session_id, next_message_id>>

\* regenerate_response, lines 522-537: the stream has ended: the new content,
\* status completed, regenerated_at; regeneration_completed
RegenFinalize(t) ==
    /\ task[t].pc = "regen_streaming"
    /\ messages' = UpdateMessage(sessions, messages, task[t].message_id, task[t].user_id,
                      [content |-> task[t].ai_response_content, status |-> "completed",
                       regenerated_at |-> Now(t)])
    /\ task' = [task EXCEPT ![t] =
          [@ EXCEPT !.pc = "done",
                    !.events = Emit(t, Event("regeneration_completed", task[t].message_id,
                                             task[t].ai_response_content))]]
    /\ UNCHANGED <<sessions, next_session_id, next_message_id>>

\* regenerate_response, lines 539-545: a store call raises, the handler emits error
RegenStorageError(t) ==
    /\ task[t].pc \in {"regen_mark", "regen_streaming"}
    /\ task' = [task EXCEPT ![t] =
          [@ EXCEPT !.pc = "done",
                    !.events = Emit(t, Event("error", NoId, StorageFailure))]]
    /\ UNCHANGED <<sessions, messages, next_session_id, next_message_id>>

RegenerateResponse(t) ==
    \/ RegenMessageNotFound(t)
    \/ RegenGetMessage(t)
    \/ RegenGetContext(t)
    \/ RegenMarkRegenerating(t)
    \/ RegenContentChunk(t)
    \/ RegenOtherChunk(t)
    \/ RegenErrorChunk(t)
    \/ RegenFinalize(t)
    \/ RegenStorageError(t)

\* MessageUpdate: the bodies PUT /messages/{id} accepts (exclude_unset)
MessageUpdates ==
    {[content |-> c] : c \in Contents} \cup {[metadata |-> "user"]}
        \cup {[content |-> c, metadata |-> "user"] : c \in Contents}

\* routes.update_message: PUT /messages/{message_id}
ApiUpdateMessage(t) ==
    /\ MayStart(t)
    /\ \E user_id \in Users, message_id \in 1..next_message_id,
          update_data \in MessageUpdates :
        /\ messages' = UpdateMessage(sessions, messages, message_id, user_id, update_data)
        /\ task' = [task EXCEPT ![t] =
              [@ EXCEPT !.kind = "update_message", !.user_id = user_id,
                        !.message_id = message_id,
                        !.pc = IF GetMessage(sessions, messages, message_id, user_id) = 0
                               THEN "not_found" ELSE "returned"]]
    /\ UNCHANGED <<sessions, next_session_id, next_message_id>>

\* routes.regenerate_message: POST /messages/{message_id}/regenerate, which is
\* MessageService.regenerate_message: status regenerating and the request's
\* metadata, nothing else
ApiRegenerateMessage(t) ==
    /\ MayStart(t)
    /\ \E user_id \in Users, message_id \in 1..next_message_id :
        /\ messages' = UpdateMessage(sessions, messages, message_id, user_id,
                          [status |-> "regenerating", metadata |-> "regeneration"])
        /\ task' = [task EXCEPT ![t] =
              [@ EXCEPT !.kind = "regenerate_message", !.user_id = user_id,
                        !.message_id = message_id,
                        !.pc = IF GetMessage(sessions, messages, message_id, user_id) = 0
                               THEN "not_found" ELSE "returned"]]
    /\ UNCHANGED <<sessions, next_session_id, next_message_id>>

NextRegen ==
    \E t \in Tasks : RegenerateResponse(t) \/ ApiUpdateMessage(t) \/ ApiRegenerateMessage(t)

SpecRegen == InitRegen /\ [][NextRegen]_vars

\* the event loop resumes every regenerate_response generator that can go on;
\* the caller reads its stream to the end
SpecRegenLive ==
    SpecRegen /\ \A t \in Tasks : WF_vars(RegenerateResponse(t))

\* ---------------------------------------------------------------------------
\* one exchange alone, over a stored conversation, with a longer provider stream

\* The store after one stream_response exchange of alice: "Hi" answered with
\* "Hel" (the session update of that exchange has set message_count to 0).
InitAlone ==
    /\ next_session_id = 2
    /\ next_message_id = 3
    /\ task = [t \in Tasks |-> IF t = 1 THEN IdleTask ELSE AbsentTask]
    /\ messages =
          << MessageDoc(1, "alice", 1, "user", <<"Hi">>, "completed"),
             [MessageDoc(2, "alice", 1, "assistant", <<"Hel">>, "completed") EXCEPT
                !.completed_at = Past(1)] >>
    /\ sessions =
          (1 :> [NewSession("alice", <<"Hi">>) EXCEPT !.last_activity = Past(1)])

SpecAlone == InitAlone /\ [][Next]_vars

\* one exchange of any of the three kinds, alone over the stored conversation
NextCalls ==
    \E t \in Tasks : StreamResponse(t) \/ GenerateResponse(t) \/ RegenerateResponse(t)

SpecCalls == InitAlone /\ [][NextCalls]_vars

\* ---------------------------------------------------------------------------
\* one request in full: its attachments, its system prompt, and the streaming
\* route as the caller of stream_response

MaxAttachments == 2

AttachmentLists ==
    UNION {[1..n -> AttachmentIds] : n \in 0..MaxAttachments}

SystemPrompts == {<<>>, <<"Be brief.">>}

\* the lookup of the next attachment id: a record is appended, None is skipped
AttachmentLookup(t) ==
    LET attachment == GetAttachment(Head(task[t].pending_attachments), task[t].user_id)
    IN  [task[t] EXCEPT
            !.pending_attachments = Tail(@),
            !.processed_attachments =
                IF attachment # NoAttachment THEN Append(@, attachment) ELSE @]

\* stream_response, lines 259-265: one turn of the loop over the attachment ids
StreamGetAttachment(t) ==
    /\ task[t].pc = "attachments"
    /\ task' = [task EXCEPT ![t] =
          [AttachmentLookup(t) EXCEPT
              !.pc = IF Tail(task[t].pending_attachments) = <<>>
                     THEN "create_placeholder" ELSE "attachments"]]
    /\ UNCHANGED <<sessions, messages, next_session_id, next_message_id>>

\* generate_response, lines 88-104: one attachment task of the gather
GenGetAttachment(t) ==
    /\ task[t].pc = "gather"
    /\ task[t].pending_attachments # <<>>
    /\ task' = [task EXCEPT ![t] = AttachmentLookup(t)]
    /\ UNCHANGED <<sessions, messages, next_session_id, next_message_id>>

\* str(e) of the TypeError json.dumps raises on a datetime
SerializeFailure == <<"Object of type datetime is not JSON serializable">>

\* stream_message.generate_stream, lines 327-333: json.dumps of the
\* user_message_created chunk raises on the datetimes of the message document;
\* the handler of the route yields its own object and the stream is over
StreamRouteError(t) ==
    /\ task[t].kind = "stream"
    /\ task[t].pc = "get_context"
    /\ task' = [task EXCEPT ![t] =
          [@ EXCEPT !.pc = "cancelled",
                    !.events = Emit(t, [error |-> SerializeFailure,
                                        timestamp |-> "now"])]]
    /\ UNCHANGED <<sessions, messages, next_session_id, next_message_id>>

InitRequest ==
    /\ next_session_id = 2
    /\ next_message_id = 3
    /\ \E attachments \in AttachmentLists, system_prompt \in SystemPrompts :
          task = [t \in Tasks |->
                    IF t = 1
                    THEN [IdleTask EXCEPT !.attachments = attachments,
                                          !.pending_attachments = attachments,
                                          !.system_prompt = system_prompt]
                    ELSE AbsentTask]
    /\ messages =
          << MessageDoc(1, "alice", 1, "user", <<"Hi">>, "completed"),
             [MessageDoc(2, "alice", 1, "assistant", <<"Hel">>, "completed") EXCEPT
                !.completed_at = Past(1)] >>
    /\ sessions =
          (1 :> [NewSession("alice", <<"Hi">>) EXCEPT !.last_activity = Past(1)])

NextRequest ==
    \E t \in Tasks :
        \/ StreamResponse(t)
        \/ GenerateResponse(t)
        \/ StreamGetAttachment(t)
        \/ GenGetAttachment(t)
        \/ StreamRouteError(t)

SpecRequest == InitRequest /\ [][NextRequest]_vars

\* ---------------------------------------------------------------------------
\* the session lifecycle of SessionService next to exchanges in flight

\* Session.archive / Session.restore / Session.soft_delete: the fields the
\* $set of archive_session, restore_session and delete_session(soft) writes
Archived == [is_archived |-> TRUE, status |-> "archived"]
Restored == [is_archived |-> FALSE, status |-> "active"]
SoftDeleted == [status |-> "deleted"]

\* db.sessions.update_one({"_id": session_id}, {"$set": fields})
SetSessionFields(sess, session_id, fields) ==
    IF session_id \notin DOMAIN sess THEN sess
    ELSE [sess EXCEPT ![session_id] =
            [f \in DOMAIN @ |-> IF f \in DOMAIN fields THEN fields[f] ELSE @[f]]]

\* db.messages.delete_many({"session_id": session_id})
DeleteSessionMessages(msgs, session_id) ==
    SelectSeq(msgs, LAMBDA m : m.session_id # session_id)

\* db.sessions.delete_one({"_id": session_id, "user_id": user_id})
DeleteSessionDoc(sess, session_id, user_id) ==
    IF ~SessionFound(sess, session_id, user_id) THEN sess
    ELSE [s \in DOMAIN sess \ {session_id} |-> sess[s]]

\* archive_session, restore_session and delete_session(soft=True): find the
\* user's session, None / False when there is none, else the $set
SessionStatusCall(t, kind, fields) ==
    /\ \E user_id \in RequestUsers(t), session_id \in DOMAIN sessions :
        /\ sessions' = IF SessionFound(sessions, session_id, user_id)
                       THEN SetSessionFields(sessions, session_id, fields)
                       ELSE sessions
        /\ task' = [task EXCEPT ![t] =
              [@ EXCEPT !.kind = kind, !.user_id = user_id, !.session_id = session_id,
                        !.pc = IF SessionFound(sessions, session_id, user_id)
                               THEN "returned" ELSE "not_found"]]
    /\ UNCHANGED <<messages, next_session_id, next_message_id>>

\* SessionService.archive_session
ArchiveSession(t) ==
    /\ MayStart(t)
    /\ SessionStatusCall(t, "archive_session", Archived)

\* SessionService.restore_session
RestoreSession(t) ==
    /\ MayStart(t)
    /\ SessionStatusCall(t, "restore_session", Restored)

\* SessionService.delete_session(soft=True), lines 289-304
SoftDeleteSession(t) ==
    /\ MayStart(t)
    /\ SessionStatusCall(t, "soft_delete_session", SoftDeleted)

\* SessionService.delete_session(soft=False), lines 281-308: the session is
\* found (or not: return False) and its messages are deleted first
HardDeleteMessages(t) ==
    /\ MayStart(t)
    /\ \E user_id \in RequestUsers(t), session_id \in DOMAIN sessions :
        /\ messages' = IF SessionFound(sessions, session_id, user_id)
                       THEN DeleteSessionMessages(messages, session_id)
                       ELSE messages
        /\ task' = [task EXCEPT ![t] =
              [@ EXCEPT !.kind = "hard_delete_session", !.user_id = user_id,
                        !.session_id = session_id,
                        !.pc = IF SessionFound(sessions, session_id, user_id)
                               THEN "delete_session_doc" ELSE "not_found"]]
    /\ UNCHANGED <<sessions, next_session_id, next_message_id>>

\* SessionService.delete_session(soft=False), lines 310-318: then the session
HardDeleteSession(t) ==
    /\ task[t].pc = "delete_session_doc"
    /\ sessions' = DeleteSessionDoc(sessions, task[t].session_id, task[t].user_id)
    /\ task' = [task EXCEPT ![t] = [@ EXCEPT !.pc = "returned"]]
    /\ UNCHANGED <<messages, next_session_id, next_message_id>>

SessionLifecycle(t) ==
    \/ ArchiveSession(t)
    \/ RestoreSession(t)
    \/ SoftDeleteSession(t)
    \/ HardDeleteMessages(t)
    \/ HardDeleteSession(t)

\* the store of InitAlone with both exchange slots free
InitLife ==
    /\ next_session_id = 2
    /\ next_message_id = 3
    /\ task = [t \in Tasks |-> IdleTask]
    /\ messages =
          << MessageDoc(1, "alice", 1, "user", <<"Hi">>, "completed"),
             [MessageDoc(2, "alice", 1, "assistant", <<"Hel">>, "completed") EXCEPT
                !.completed_at = Past(1)] >>
    /\ sessions =
          (1 :> [NewSession("alice", <<"Hi">>) EXCEPT !.last_activity = Past(1)])

NextLife == \E t \in Tasks : StreamResponse(t) \/ SessionLifecycle(t)

SpecLife == InitLife /\ [][NextLife]_vars

\* ---------------------------------------------------------------------------
\* PUT /sessions/{id} next to POST /messages: update_session awaits between
\* its read of the session and its write

\* Session.update_from_dict on the model built from the document read
UpdateFromDict(session, update_data) ==
    [f \in DOMAIN session |->
        IF f \in DOMAIN update_data \cap SessionUpdatableFields
        THEN update_data[f] ELSE session[f]]

\* update_one({"$set": session.model_dump(exclude_none=True)}): every field
\* of the model that is not None replaces the stored one (of the fields kept
\* here only last_activity is Optional)
SetModelDump(stored, session) ==
    [f \in DOMAIN stored |->
        IF f = "last_activity" /\ session[f] = NoStamp
        THEN stored[f] ELSE session[f]]

\* SessionUpdate bodies (exclude_unset): a new title
SessionUpdates == {[title |-> <<"Plans">>], [title |-> <<"Trip">>]}

\* a request slot with room for the session model update_session holds
IdleCall ==
    IdleTask @@ [session_doc |-> NewSession("", <<>>), update_data |-> [title |-> <<>>]]

\* a session of alice and one of bob whose statistics match their messages
InitUpdate ==
    /\ next_session_id = 3
    /\ next_message_id = 4
    /\ task = [t \in Tasks |-> IdleCall]
    /\ messages =
          << MessageDoc(1, "alice", 1, "user", <<"Hi">>, "completed"),
             [MessageDoc(2, "alice", 1, "assistant", <<"Hel">>, "completed") EXCEPT
                !.completed_at = Past(1)],
             MessageDoc(3, "bob", 2, "user", <<"Why">>, "completed") >>
    /\ sessions =
          (1 :> [NewSession("alice", <<"Hi">>) EXCEPT !.message_count = 2,
                                                      !.last_activity = CreatedAt(2)])
          @@ (2 :> [NewSession("bob", <<"Why">>) EXCEPT !.message_count = 1,
                                                        !.last_activity = CreatedAt(3)])

\* update_session, lines 222-231: find_one; None when it is not the user's
ApiUpdateSessionRead(t) ==
    /\ MayStart(t)
    /\ \E user_id \in RequestUsers(t), session_id \in DOMAIN sessions,
          update_data \in SessionUpdates :
        task' = [task EXCEPT ![t] =
          [@ EXCEPT !.kind = "update_session", !.user_id = user_id,
                    !.session_id = session_id, !.update_data = update_data,
                    !.session_doc = IF SessionFound(sessions, session_id, user_id)
                                    THEN sessions[session_id] ELSE @,
                    !.pc = IF SessionFound(sessions, session_id, user_id)
                           THEN "update_write" ELSE "not_found"]]
    /\ UNCHANGED <<sessions, messages, next_session_id, next_message_id>>

\* update_session, lines 233-253: update_from_dict on the model, then the
\* $set of the whole model
ApiUpdateSessionWrite(t) ==
    /\ task[t].pc = "update_write"
    /\ sessions' =
          IF SessionFound(sessions, task[t].session_id, task[t].user_id)
          THEN [sessions EXCEPT ![task[t].session_id] =
                  SetModelDump(@, UpdateFromDict(task[t].session_doc,
                                                 task[t].update_data))]
          ELSE sessions
    /\ task' = [task EXCEPT ![t] = [@ EXCEPT !.pc = "returned"]]
    /\ UNCHANGED <<messages, next_session_id, next_message_id>>

\* POST /messages: MessageService.create_message; ValueError when the session
\* is not the user's
ApiCreateMessage(t) ==
    /\ MayStart(t)
    /\ \E user_id \in RequestUsers(t), session_id \in DOMAIN sessions,
          content \in RequestContents(t) :
        \/ /\ CreateMessage(user_id, session_id, "user", content, "completed")
           /\ task' = [task EXCEPT ![t] =
                 [@ EXCEPT !.kind = "create_message", !.user_id = user_id,
                           !.session_id = session_id, !.message_content = content,
                           !.user_message_id = next_message_id, !.pc = "returned"]]
        \/ /\ ~CanCreateMessage(sessions, user_id, session_id)
           /\ task' = [task EXCEPT ![t] =
                 [@ EXCEPT !.kind = "create_message", !.user_id = user_id,
                           !.session_id = session_id, !.message_content = content,
                           !.pc = "raised"]]
           /\ UNCHANGED <<sessions, messages, next_session_id, next_message_id>>

NextUpdate ==
    \E t \in Tasks :
        \/ ApiUpdateSessionRead(t)
        \/ ApiUpdateSessionWrite(t)
        \/ ApiCreateMessage(t)

SpecUpdate == InitUpdate /\ [][NextUpdate]_vars

\* ---------------------------------------------------------------------------
\* the title generator over request contents spelled character by character

\* a word of n letters
Word(n) == [i \in 1..n |-> "a"]
\* the lengths of the words of a content: short ones, and ones that reach,
\* fill and pass the 50 characters of a title
WordLengths == {1, 9, 24, 49, 50, 51}
\* the whitespace a content can begin and end with
Pads == {<<>>, <<" ">>, <<"\t", "\n">>}

\* the words joined with single spaces
RECURSIVE Join(_)
Join(lengths) ==
    IF lengths = <<>> THEN <<>>
    ELSE IF Len(lengths) = 1 THEN Word(lengths[1])
    ELSE Word(Head(lengths)) \o <<" ">> \o Join(Tail(lengths))

\* the contents handed to _generate_session_title: "", whitespace only, and
\* up to MaxWords words with or without whitespace around them
TitleInputs ==
    {left \o Join(lengths) \o right :
        left \in Pads, right \in Pads,
        lengths \in UNION {[1..n -> WordLengths] : n \in 0..MaxWords}}

\* a stream request without a session id has arrived with one of the contents
InitTitle ==
    /\ sessions = <<>>
    /\ messages = <<>>
    /\ next_session_id = 1
    /\ next_message_id = 1
    /\ \E content \in TitleInputs :
          task = [t \in Tasks |->
                    IF t = 1
                    THEN [IdleTask EXCEPT !.kind = "stream", !.pc = "requested",
                                          !.user_id = "alice",
                                          !.message_content = content]
                    ELSE AbsentTask]

\* stream_response, lines 226-239, for the request that has arrived
StreamTitledSession(t) ==
    /\ task[t].pc = "requested"
    /\ StreamNewSession(t, task[t].user_id, task[t].message_content)

NextTitle == \E t \in Tasks : StreamTitledSession(t)

SpecTitle == InitTitle /\ [][NextTitle]_vars

\* ---------------------------------------------------------------------------
\* AIService.summarize_conversation; a text is the sequence of its characters

\* the default of max_length
DefaultMaxLength == 200

\* "Conversation summary unavailable"
SummaryUnavailable ==
    << "C", "o", "n", "v", "e", "r", "s", "a",
       "t", "i", "o", "n", " ", "s", "u", "m",
       "m", "a", "r", "y", " ", "u", "n", "a",
       "v", "a", "i", "l", "a", "b", "l", "e" >>

\* _generate_simple_completion returns None: no choice, or the call raised
NoCompletion == [none |-> TRUE, text |-> <<>>]
\* ... or the content of the first choice
Completion(text) == [none |-> FALSE, text |-> text]

\* what the completion call may return: None, "", or a text of some length,
\* short, around the limits asked for, and longer than the default limit
CompletionLengths == {0, 1, 2, 3, 5, 11, 33, DefaultMaxLength + 1}
Completions == {NoCompletion} \cup {Completion(Word(n)) : n \in CompletionLengths}

\* the limits a caller may ask for: below, at and above the length of the
\* marker "..." and of the fallback text, and the default
MaxLengths == {0, 1, 2, 3, 4, 10, 31, 32, 33, DefaultMaxLength}

\* text[:n] of Python: a negative n counts from the end
SliceTo(text, n) ==
    IF n >= 0 THEN SubSeq(text, 1, Min(n, Len(text)))
    ELSE SubSeq(text, 1, IF Len(text) + n > 0 THEN Len(text) + n ELSE 0)

\* summarize_conversation, lines 358-363, for the completion it was given
SummarizeConversation(completion, max_length) ==
    LET truthy(s) == ~s.none /\ s.text # <<>>
        summary ==
          IF truthy(completion) /\ Len(completion.text) > max_length
          THEN Completion(SliceTo(completion.text, max_length - 3) \o <<".", ".", ".">>)
          ELSE completion
    IN  IF truthy(summary) THEN summary.text ELSE SummaryUnavailable

SummaryCall(completion, max_length) ==
    [kind |-> "summarize", pc |-> "called", completion |-> completion,
     max_length |-> max_length, summary |-> <<>>]

InitSummary ==
    /\ sessions = <<>>
    /\ messages = <<>>
    /\ next_session_id = 1
    /\ next_message_id = 1
    /\ \E completion \in Completions, max_length \in MaxLengths :
          task = [t \in Tasks |->
                    IF t = 1 THEN SummaryCall(completion, max_length) ELSE AbsentTask]

\* one call of summarize_conversation returns
Summarize(t) ==
    /\ task[t].pc = "called"
    /\ task' = [task EXCEPT ![t] =
          [@ EXCEPT !.pc = "returned",
                    !.summary = SummarizeConversation(task[t].completion,
                                                      task[t].max_length)]]
    /\ UNCHANGED <<sessions, messages, next_session_id, next_message_id>>

NextSummary == \E t \in Tasks : Summarize(t)

SpecSummary == InitSummary /\ [][NextSummary]_vars

\* ---------------------------------------------------------------------------
\* AIService.stream_chat_completion: the canonical chunk stream of one call

MaxProviderChunks == 2

\* a chunk of the provider's stream: whether it has a choice, and what the
\* delta of its first choice holds
ProviderChunks ==
    [choices : BOOLEAN, content : {"", "Hel", "lo "}, function_call : BOOLEAN,
     tool_calls : 0..1, finish_reason : BOOLEAN]

\* a chunk stream_chat_completion yields
CanonicalChunk(type, content) ==
    [type |-> type, content |-> content, timestamp |-> "now"]

\* _stream_litellm_completion, lines 129-170: what one provider chunk yields
ChunkEvents(chunk) ==
    IF ~chunk.choices THEN <<>>
    ELSE (IF chunk.content # "" THEN <<CanonicalChunk("content", <<chunk.content>>)>>
          ELSE <<>>)
         \o (IF chunk.function_call THEN <<CanonicalChunk("function_call", <<>>)>>
             ELSE <<>>)
         \o [i \in 1..chunk.tool_calls |-> CanonicalChunk("function_call", <<>>)]
         \o (IF chunk.finish_reason THEN <<CanonicalChunk("completion", <<>>)>>
             ELSE <<>>)

\* what litellm may raise from acompletion or from a read of its stream
LitellmExceptions == {"litellm.RateLimitError", "litellm.APIError", "Exception"}

Raised(class, message) == [class |-> class, message |-> message]
NoException == Raised("", <<>>)

\* _stream_litellm_completion, lines 172-180: the except clauses, in order
TranslateLitellm(e) ==
    IF e.class = "litellm.RateLimitError"
    THEN Raised("RateLimitError", <<"Rate limit exceeded: ">> \o e.message)
    ELSE IF e.class = "litellm.APIError"
    THEN Raised("AIServiceError", <<"API error: ">> \o e.message)
    ELSE Raised("AIServiceError", <<"LiteLLM streaming error: ">> \o e.message)

\* except restricted to AIServiceError itself, its subclasses left out
ExceptException_ServiceErrorOnly(e) == e.class = "AIServiceError"

\* core.exceptions and `except Exception`: RateLimitError is an
\* AIServiceError, which is an Exception, as litellm's own are
ExceptException(e) ==
    e.class \in {"Exception", "AIServiceError", "RateLimitError",
                 "litellm.APIError", "litellm.RateLimitError"}

ProviderStream ==
    [kind |-> "provider_stream", pc |-> "call", chunks |-> 0, events |-> <<>>,
     exception |-> NoException, failed |-> FALSE]

InitProvider ==
    /\ sessions = <<>>
    /\ messages = <<>>
    /\ next_session_id = 1
    /\ next_message_id = 1
    /\ task = [t \in Tasks |-> IF t = 1 THEN ProviderStream ELSE AbsentTask]

\* litellm.acompletion(stream=True) returns the response
AcompletionReturns(t) ==
    /\ task[t].pc = "call"
    /\ task' = [task EXCEPT ![t] = [@ EXCEPT !.pc = "reading"]]
    /\ UNCHANGED <<sessions, messages, next_session_id, next_message_id>>

\* litellm.acompletion raises, or a read of the response does
LitellmRaises(t) ==
    /\ task[t].pc \in {"call", "reading"}
    /\ \E class \in LitellmExceptions :
        task' = [task EXCEPT ![t] =
          [@ EXCEPT !.pc = "inner_handler", !.failed = TRUE,
                    !.exception = Raised(class, <<"provider said no">>)]]
    /\ UNCHANGED <<sessions, messages, next_session_id, next_message_id>>

\* async for chunk in response: one chunk, and what it yields
ReadChunk(t) ==
    /\ task[t].pc = "reading"
    /\ task[t].chunks < MaxProviderChunks
    /\ \E chunk \in ProviderChunks :
        task' = [task EXCEPT ![t] =
          [@ EXCEPT !.chunks = @ + 1, !.events = @ \o ChunkEvents(chunk)]]
    /\ UNCHANGED <<sessions, messages, next_session_id, next_message_id>>

\* the response is exhausted and both generators return
ResponseExhausted(t) ==
    /\ task[t].pc = "reading"
    /\ task' = [task EXCEPT ![t] = [@ EXCEPT !.pc = "ended"]]
    /\ UNCHANGED <<sessions, messages, next_session_id, next_message_id>>

\* _stream_litellm_completion's handlers raise the service's own exception
TranslateException(t) ==
    /\ task[t].pc = "inner_handler"
    /\ task' = [task EXCEPT ![t] =
          [@ EXCEPT !.pc = "outer_handler",
                    !.exception = TranslateLitellm(task[t].exception)]]
    /\ UNCHANGED <<sessions, messages, next_session_id, next_message_id>>

\* stream_chat_completion, lines 106-112: except Exception yields the error
\* chunk and the generator returns; what the clause does not catch goes on
\* to the caller
YieldErrorChunk(t) ==
    /\ task[t].pc = "outer_handler"
    /\ task' = [task EXCEPT ![t] =
          IF ExceptException(task[t].exception)
          THEN [@ EXCEPT !.pc = "ended", !.exception = NoException,
                         !.events = Append(@, CanonicalChunk("error",
                                                  task[t].exception.message))]
          ELSE [@ EXCEPT !.pc = "escaped"]]
    /\ UNCHANGED <<sessions, messages, next_session_id, next_message_id>>

NextProvider ==
    \E t \in Tasks :
        \/ AcompletionReturns(t)
        \/ LitellmRaises(t)
        \/ ReadChunk(t)
        \/ ResponseExhausted(t)
        \/ TranslateException(t)
        \/ YieldErrorChunk(t)

SpecProvider == InitProvider /\ [][NextProvider]_vars

\* ===================================================================== claims
\* the stored message with this id (ids are unique; the caller checks it exists)
MessageById(id) == messages[IndexOf(messages, id)]
Stored(id) == IndexOf(messages, id) # 0
LastEvent(t) == task[t].events[Len(task[t].events)]
InProgress(m) == m.status \in {"generating", "regenerating"}

\* C1: in every reachable state every session has at most one message whose
\* status is generating or regenerating, also with two requests in flight on
\* the same session.
C1_SingleGenerationPerSession ==
    \A s \in DOMAIN sessions :
        Cardinality({i \in 1..Len(messages) :
                        messages[i].session_id = s /\ InProgress(messages[i])}) <= 1

\* C2: when stream_response has ended on a provider error event (the error
\* carries the placeholder's id), the placeholder is stored with status
\* failed and the error in its metadata; it is not left generating.
C2_ProviderErrorFinalizesFailed ==
    \A t \in Tasks :
        (/\ task[t].kind = "stream"
         /\ task[t].pc = "done"
         /\ task[t].ai_message_id # NoId
         /\ LastEvent(t).type = "error"
         /\ LastEvent(t).message_id = task[t].ai_message_id)
        => /\ Stored(task[t].ai_message_id)
           /\ MessageById(task[t].ai_message_id).status = "failed"
           /\ MessageById(task[t].ai_message_id).metadata = "error"

\* C3: when the caller has gone away after ai_message_started and the
\* exchange has stopped, the assistant message has been finalized: its
\* status is failed or completed, not generating.
C3_DisconnectStillFinalizes ==
    \A t \in Tasks :
        (/\ task[t].kind = "stream"
         /\ task[t].pc = "cancelled"
         /\ task[t].ai_message_id # NoId)
        => /\ Stored(task[t].ai_message_id)
           /\ MessageById(task[t].ai_message_id).status \in {"failed", "completed"}

\* the place of an event type in the order session_created,
\* user_message_created, ai_message_started, content_delta / function_call,
\* ai_message_completed / error
Phase(type) ==
    CASE type = "session_created" -> 1
      [] type = "user_message_created" -> 2
      [] type = "ai_message_started" -> 3
      [] type \in {"content_delta", "function_call"} -> 4
      [] type \in {"ai_message_completed", "error"} -> 5
      [] OTHER -> 6

HasBefore(ev, j, type) == \E i \in 1..(j - 1) : ev[i].type = type

EventsOrdered(t) ==
    LET ev == task[t].events
    IN  /\ \A j \in 1..Len(ev) : Phase(ev[j].type) <= 5
        \* the order of the phases; only content_delta / function_call repeat
        /\ \A i, j \in 1..Len(ev) :
              i < j => /\ Phase(ev[i].type) <= Phase(ev[j].type)
                       /\ Phase(ev[i].type) = Phase(ev[j].type) => Phase(ev[i].type) = 4
        \* session_created exactly when this exchange created the session, and first
        /\ \A j \in 1..Len(ev) : ev[j].type = "session_created" => j = 1 /\ task[t].created_session
        /\ (task[t].created_session /\ Len(ev) > 0) => ev[1].type = "session_created"
        \* nothing of a later phase without the earlier ones
        /\ \A j \in 1..Len(ev) :
              /\ ev[j].type = "ai_message_started" => HasBefore(ev, j, "user_message_created")
              /\ ev[j].type \in {"content_delta", "function_call", "ai_message_completed"}
                    => HasBefore(ev, j, "ai_message_started")
        \* an exchange that has run to its end has ended on a terminal event
        /\ task[t].pc = "done" => Len(ev) > 0 /\ Phase(ev[Len(ev)].type) = 5

\* C4: the events of one stream_response come in the order session_created
\* (only when the exchange created the session, and then first),
\* user_message_created, ai_message_started, content deltas, and last
\* ai_message_completed or error; nothing follows the terminal event, and
\* after ai_message_completed the assistant message is completed.
C4_EventOrder ==
    \A t \in Tasks :
        task[t].kind = "stream" =>
            /\ EventsOrdered(t)
            /\ (task[t].pc = "done" /\ LastEvent(t).type = "ai_message_completed")
                  => /\ Stored(task[t].ai_message_id)
                     /\ MessageById(task[t].ai_message_id).status = "completed"

\* a whole successful exchange: a created session, deltas, ai_message_completed
C4_Witness ==
    \E t \in Tasks :
        /\ task[t].kind = "stream" /\ task[t].pc = "done"
        /\ task[t].created_session
        /\ Len(task[t].events) = 4 + MaxChunks
        /\ task[t].events[4].type = "content_delta"
        /\ LastEvent(t).type = "ai_message_completed"

\* C5: once an exchange has persisted its user message, that message stays
\* stored with its original content and status completed whatever the
\* exchange does next (provider error, storage error, finalize, return), and
\* no user message is ever failed.
C5_UserMessageKept ==
    /\ \A t \in Tasks :
          task[t].user_message_id # NoId =>
              /\ Stored(task[t].user_message_id)
              /\ LET m == MessageById(task[t].user_message_id)
                 IN  /\ m.role = "user"
                     /\ m.content = task[t].message_content
                     /\ m.status = "completed"
                     /\ m.session_id = task[t].session_id
    /\ \A i \in 1..Len(messages) : messages[i].role = "user" => messages[i].status = "completed"

\* the provider failed after the user message was persisted: the placeholder
\* of a generate_response is failed, a stream_response has ended on the
\* provider's error, and a finalize has been written
C5_Witness ==
    /\ \E t \in Tasks :
          /\ task[t].kind = "generate" /\ task[t].pc = "raised"
          /\ task[t].ai_message_id # NoId
          /\ MessageById(task[t].ai_message_id).status = "failed"
    /\ \E t \in Tasks :
          /\ task[t].kind = "stream" /\ task[t].pc = "done"
          /\ LastEvent(t).type = "ai_message_completed"

\* C6: the context an exchange hands to the provider contains the user
\* message that triggered the exchange: the user message was persisted
\* before the history was read.
C6_ContextHasUserMessage ==
    \A t \in Tasks :
        (task[t].kind \in {"stream", "generate"} /\ task[t].has_history)
        => /\ task[t].user_message_id # NoId
           /\ \E k \in 1..Len(task[t].conversation_history) :
                 task[t].conversation_history[k].timestamp = CreatedAt(task[t].user_message_id)

\* the completed messages of a session as {role, content, timestamp}
\* entries, oldest first
CompletedOldestFirst(session_id) ==
    LET kept == SelectSeq(messages, LAMBDA m : m.session_id = session_id
                                               /\ m.status = "completed")
    IN  [i \in 1..Len(kept) |-> AiFormat(kept[i])]

\* C7: for the stored messages of any session the context builder returns
\* exactly the completed ones, oldest first.
C7_ContextCompletedOldestFirst ==
    \A s \in DOMAIN sessions :
        GetConversationContext(sessions, messages, s, sessions[s].user_id)
            = CompletedOldestFirst(s)

\* C8: the context regenerate_response sends to the provider for message M
\* holds only messages created strictly before M: neither M nor a later one.
C8_ContextStrictlyBefore ==
    \A t \in Tasks :
        (task[t].kind = "regenerate" /\ task[t].has_history)
        => \A k \in 1..Len(task[t].conversation_history) :
              task[t].conversation_history[k].timestamp.n < task[t].message_id

\* the step of exchange t that ends a regeneration with regeneration_completed
RegenerationCompletes(t) ==
    /\ task[t].kind = "regenerate"
    /\ task[t].pc = "regen_streaming"
    /\ task'[t].pc = "done"
    /\ task'[t].events[Len(task'[t].events)].type = "regeneration_completed"

\* C9: the step that completes a regeneration of M creates no message and
\* changes no other message; of M it changes the content to the accumulated
\* content, the status to completed and regenerated_at, and leaves the id,
\* the session id and completed_at as they were.
C9_RegenerationReusesMessage ==
    [][\A t \in Tasks :
          RegenerationCompletes(t) =>
              LET i == IndexOf(messages, task[t].message_id)
              IN  /\ i # 0
                  /\ Len(messages') = Len(messages)
                  /\ \A j \in 1..Len(messages) : j # i => messages'[j] = messages[j]
                  /\ messages'[i] = [messages[i] EXCEPT
                                        !.content = task[t].ai_response_content,
                                        !.status = "completed",
                                        !.regenerated_at = Now(t)]
                  /\ messages'[i].regenerated_at # NoStamp
                  /\ messages'[i].completed_at = messages[i].completed_at]_vars

\* a regeneration of a completed assistant message that had a completed_at
\* has ended: new content, regenerated_at set, completed_at still the old one
C9_Witness ==
    \E t \in Tasks :
        /\ task[t].kind = "regenerate" /\ task[t].pc = "done"
        /\ LastEvent(t).type = "regeneration_completed"
        /\ Len(task[t].ai_response_content) > 0
        /\ MessageById(task[t].message_id).content = task[t].ai_response_content
        /\ MessageById(task[t].message_id).regenerated_at = Now(t)
        /\ MessageById(task[t].message_id).completed_at = Past(1)

\* C10: the content of a stored message changes only in a step taken while
\* its status is generating or regenerating.
C10_ContentFrozenOnceTerminal ==
    [][\A i \in 1..Len(messages) :
          (i <= Len(messages') /\ messages'[i].content # messages[i].content)
              => InProgress(messages[i])]_vars

\* C11: a placeholder created by stream_response gets exactly one finalize
\* write: when the exchange has run to its end the stored placeholder is
\* completed or failed (not zero writes), and a step writes the placeholder
\* only while it is still generating and leaves it terminal (not two).
C11_ExactlyOneFinalize ==
    [][\A t \in Tasks :
          (task'[t].kind = "stream" /\ task'[t].ai_message_id # NoId) =>
              LET i == IndexOf(messages', task'[t].ai_message_id)
              IN  /\ i # 0
                  /\ task'[t].pc = "done" => messages'[i].status \in {"completed", "failed"}
                  /\ (task[t].ai_message_id # NoId /\ messages'[i] # messages[i])
                        => /\ messages[i].status = "generating"
                           /\ messages'[i].status \in {"completed", "failed"}]_vars

\* C12: while stream_response is between the creation of its placeholder
\* and the finalize write, the stored placeholder is empty and generating;
\* a chunk step writes nothing to the message store, a content delta is
\* appended to the buffer and any other chunk leaves the buffer alone.
C12_DeltasOnlyBuffered ==
    [][\A t \in Tasks :
          (task'[t].kind = "stream" /\ task'[t].pc = "streaming") =>
              /\ IndexOf(messages', task'[t].ai_message_id) # 0
              /\ messages'[IndexOf(messages', task'[t].ai_message_id)].content = <<>>
              /\ messages'[IndexOf(messages', task'[t].ai_message_id)].status = "generating"
              /\ (task[t].pc = "streaming" /\ task'[t] # task[t]) =>
                    /\ messages' = messages
                    /\ LET ev == task'[t].events[Len(task'[t].events)]
                       IN  IF Len(task'[t].events) > Len(task[t].events)
                              /\ ev.type = "content_delta"
                           THEN task'[t].ai_response_content
                                    = task[t].ai_response_content \o ev.content
                           ELSE task'[t].ai_response_content
                                    = task[t].ai_response_content]_vars

\* a delta has been received and buffered and the placeholder is still empty
C12_Witness ==
    \E t \in Tasks :
        /\ task[t].kind = "stream" /\ task[t].pc = "streaming"
        /\ Len(task[t].ai_response_content) > 0
        /\ LastEvent(t).type = "content_delta"
        /\ MessageById(task[t].ai_message_id).content = <<>>

\* the contents of the content_delta events among ev, concatenated in order
RECURSIVE DeltaText(_)
DeltaText(ev) ==
    IF ev = <<>> THEN <<>>
    ELSE (IF Head(ev).type = "content_delta" THEN Head(ev).content ELSE <<>>)
            \o DeltaText(Tail(ev))

Ellipsis == <<"U+2026">>

\* title is a prefix of content cut where a word of content ends, followed
\* by suffix
CutAtWordBoundary(title, content, suffix) ==
    \E n \in 0..Len(content) :
        /\ title = SubSeq(content, 1, n) \o suffix
        /\ n < Len(content) => content[n + 1] = " "
        /\ n > 0 => content[n] # " "

\* C14: a session created from a content that is longer than 50 characters
\* after trimming has a title of at most 50 characters, which is the content
\* cut at a word boundary and followed by the one-character ellipsis.
C14_LongTitleTruncated ==
    \A t \in Tasks :
        (task[t].created_session /\ Len(Strip(task[t].message_content)) > TitleLimit) =>
            LET title == sessions[task[t].session_id].title
            IN  /\ Len(title) <= TitleLimit
                /\ CutAtWordBoundary(title, Strip(task[t].message_content), Ellipsis)

\* C15: a session created from an empty or whitespace-only content is titled
\* "New Chat", no title is empty, and a content of at most 50 characters
\* after trimming is the title as trimmed, with nothing appended.
C15_ShortTitleKept ==
    \A t \in Tasks :
        task[t].created_session =>
            LET title == sessions[task[t].session_id].title
                trimmed == Strip(task[t].message_content)
            IN  /\ title # <<>>
                /\ trimmed = <<>> => title = NewChat
                /\ (trimmed # <<>> /\ Len(trimmed) <= TitleLimit) => title = trimmed

\* a whitespace-only content has been titled "New Chat"
C15_Witness ==
    \E t \in Tasks :
        /\ task[t].created_session
        /\ Len(task[t].message_content) > 0
        /\ Strip(task[t].message_content) = <<>>
        /\ sessions[task[t].session_id].title = NewChat

\* C16: the first step of a stream_response whose request carries no
\* session id inserts exactly one session, of the requesting user, and
\* emits session_created with its id as the first event while no message
\* has been persisted; every other step of a stream_response inserts no
\* session and emits no session_created.
C16_SessionCreatedIffNoSessionId ==
    [][\A t \in Tasks :
          (task'[t].kind = "stream" /\ task'[t] # task[t]) =>
              /\ IF task[t].pc = "idle" /\ task'[t].created_session
                 THEN /\ task'[t].session_id \notin DOMAIN sessions
                      /\ DOMAIN sessions' = DOMAIN sessions \cup {task'[t].session_id}
                      /\ \A s \in DOMAIN sessions : sessions'[s] = sessions[s]
                      /\ sessions'[task'[t].session_id].user_id = task'[t].user_id
                      /\ Len(task'[t].events) = 1
                      /\ task'[t].events[1].type = "session_created"
                      /\ task'[t].events[1].session_id = task'[t].session_id
                      /\ messages' = messages
                      /\ task'[t].user_message_id = NoId
                 ELSE /\ DOMAIN sessions' = DOMAIN sessions
                      /\ task'[t].created_session = task[t].created_session
              /\ \A k \in 1..Len(task'[t].events) :
                    task'[t].events[k].type = "session_created"
                        => k = 1 /\ task'[t].created_session]_vars

\* one exchange created its session and a second one named that session:
\* both have completed, and there is still the one session
C16_Witness ==
    /\ Cardinality(DOMAIN sessions) = 1
    /\ \E t, u \in Tasks :
          /\ task[t].kind = "stream" /\ task[t].created_session
          /\ task[u].kind = "stream" /\ ~task[u].created_session
          /\ task[u].session_id = task[t].session_id
          /\ task[t].pc = "done" /\ LastEvent(t).type = "ai_message_completed"
          /\ task[u].pc = "done" /\ LastEvent(u).type = "ai_message_completed"
          /\ task[t].events[1].session_id = task[t].session_id

\* C17: every step that stores a new message stores it in a session that at
\* that moment exists, belongs to the user the message is created for, and
\* has status active.
C17_MessagesOnlyInActiveSessions ==
    [][Len(messages') > Len(messages) =>
          LET m == messages'[Len(messages')]
          IN  /\ m.session_id \in DOMAIN sessions
              /\ sessions[m.session_id].user_id = m.user_id
              /\ sessions[m.session_id].status = "active"]_vars

\* C18: in every reachable state the session of every stored message is a
\* stored session.
C18_NoOrphanMessages ==
    \A i \in 1..Len(messages) : messages[i].session_id \in DOMAIN sessions

\* C19: the step of stream_response that emits ai_message_completed comes
\* after the finalize write and leaves the session with last_activity set
\* and with a message_count equal to the number of messages stored for the
\* session, which is at least the two messages of this exchange.
C19_SessionCountAfterCompletion ==
    [][\A t \in Tasks :
          (/\ task'[t].kind = "stream"
           /\ Len(task'[t].events) > Len(task[t].events)
           /\ task'[t].events[Len(task'[t].events)].type = "ai_message_completed") =>
              LET sid == task[t].session_id
                  stored == {i \in 1..Len(messages') : messages'[i].session_id = sid}
              IN  /\ MessageById(task[t].ai_message_id).status = "completed"
                  /\ sid \in DOMAIN sessions'
                  /\ sessions'[sid].last_activity = Now(t)
                  /\ sessions'[sid].message_count = Cardinality(stored)
                  /\ sessions'[sid].message_count >= 2]_vars

\* C20: an exchange whose request names a session that is not stored or is
\* another user's ends at once on an error (stream_response: the error
\* event as only event; generate_response: raised), its first step leaves
\* sessions and messages as they were, and it never has a user message, a
\* placeholder, a history or a provider chunk.
C20_UnknownSessionNoSideEffects ==
    [][\A t \in Tasks :
          (/\ task'[t].kind \in {"stream", "generate"}
           /\ ~task'[t].created_session
           /\ \/ task'[t].session_id \notin DOMAIN sessions
              \/ sessions[task'[t].session_id].user_id # task'[t].user_id) =>
              /\ task'[t].pc = IF task'[t].kind = "stream" THEN "done" ELSE "raised"
              /\ task'[t].kind = "stream" =>
                    /\ Len(task'[t].events) = 1
                    /\ task'[t].events[1].type = "error"
              /\ task'[t].user_message_id = NoId
              /\ task'[t].ai_message_id = NoId
              /\ ~task'[t].has_history
              /\ task'[t].chunks = 0
              /\ task[t].pc = "idle" =>
                    /\ sessions' = sessions /\ messages' = messages
                    /\ next_session_id' = next_session_id
                    /\ next_message_id' = next_message_id]_vars

\* bob has named alice's stored session in a stream request and got the
\* error; the session holds only what alice's own exchange stored
C20_Witness ==
    \E t \in Tasks :
        /\ task[t].kind = "stream" /\ task[t].pc = "done"
        /\ task[t].user_id = "bob"
        /\ task[t].session_id \in DOMAIN sessions
        /\ sessions[task[t].session_id].user_id = "alice"
        /\ LastEvent(t).type = "error"
        /\ \A i \in 1..Len(messages) : messages[i].user_id = "alice"
        /\ Len(messages) > 0

\* C21: an attachment reference that does not resolve, because the store
\* returns nothing or because the lookup itself fails, is skipped: the step
\* that leaves the attachment loop of stream_response goes on to the
\* placeholder (unless the caller went away) and emits no error event
C21_UnresolvedAttachmentSkipped ==
    [][\A t \in Tasks :
          (task[t].pc = "attachments" /\ task'[t].pc \notin {"attachments", "cancelled"})
              => /\ task'[t].pc = "create_placeholder"
                 /\ task'[t].events = task[t].events]_vars

\* the message of the provider's list that carries the attached text
Inlined(t, text) ==
    {i \in 1..Len(task[t].provider_messages) :
        /\ i <= Len(task[t].conversation_history)
        /\ task[t].provider_messages[i].content =
              task[t].conversation_history[i].content \o text}

\* a streaming exchange has called the provider with resolved attachments
CalledWithAttachments(t) ==
    /\ task[t].kind = "stream"
    /\ task[t].provider_calls > 0
    /\ task[t].processed_attachments # <<>>

\* C22: with resolved attachments, their text is appended to the triggering
\* user turn (the user message this exchange created) and every other message
\* of the context reaches the provider with its content unchanged
C22_AttachmentsOnTriggeringTurn ==
    \A t \in Tasks :
        CalledWithAttachments(t) =>
            LET ctx == task[t].conversation_history
                sent == task[t].provider_messages
            IN  /\ Len(sent) = Len(ctx)
                /\ \A i \in 1..Len(ctx) :
                      IF ctx[i].timestamp = CreatedAt(task[t].user_message_id)
                      THEN i \in Inlined(t, AttachmentsText(task[t].processed_attachments))
                      ELSE sent[i].content = ctx[i].content

\* the fragment the content type of a stored record calls for
FragmentForContentType(record) ==
    LET type == record.content_type
    IN  IF StartsWith(type, "image")
        THEN <<"\n\n[Image attached: ", record.filename, "]">>
        ELSE IF StartsWith(type, "text") \/ type = <<"application", "json">>
        THEN <<"\n\n[File: ", record.filename, "]\n">>
                \o Get(record, "content", <<>>) \o <<"\n[End of file]">>
        ELSE IF type = <<"application", "pdf">>
        THEN <<"\n\n[PDF attached: ", record.filename, "]">>
        ELSE <<"\n\n[File attached: ", record.filename, " (">> \o type \o <<")]">>

RECURSIVE FragmentsForContentTypes(_)
FragmentsForContentTypes(records) ==
    IF records = <<>> THEN <<>>
    ELSE FragmentForContentType(Head(records))
            \o FragmentsForContentTypes(Tail(records))

\* C23: for the records the attachment store returned, the text appended to
\* the provider's list is the sequence of fragments chosen by each record's
\* content type
C23_FragmentByContentType ==
    \A t \in Tasks :
        CalledWithAttachments(t) =>
            Inlined(t, FragmentsForContentTypes(task[t].processed_attachments)) # {}

RegenerateRequestStep(t) ==
    /\ task'[t] # task[t]
    /\ task'[t].kind \in {"regenerate", "regenerate_message"}

\* C26: regeneration is only started from a completed message: a regenerate
\* request sets a message to regenerating, and calls the provider for it,
\* only if the message's status was completed
C26_RegenerateOnlyFromCompleted ==
    [][\A t \in Tasks :
          RegenerateRequestStep(t) =>
              /\ \A i \in 1..Len(messages) :
                    (messages'[i] # messages[i] /\ messages'[i].status = "regenerating")
                        => messages[i].status = "completed"
              /\ task'[t].provider_calls > task[t].provider_calls
                    => MessageById(task[t].message_id).status = "completed"]_vars

\* the positions of the stored conversation of InitRegen
StoredPositions == 1..4

\* C27: every message set to regenerating eventually is completed or failed,
\* whichever way the provider stream ends and whichever of
\* regenerate_response and the regenerate route made the request
C27_RegeneratingEventuallyTerminal ==
    \A i \in StoredPositions :
        (messages[i].status = "regenerating")
            ~> (messages[i].status \in {"completed", "failed"})

\* C28: for every completion and every max_length, the text that
\* summarize_conversation returns has at most max_length characters, also
\* when the completion is longer, when max_length is below the length of the
\* marker, and when the fallback text is returned
C28_SummaryWithinMaxLength ==
    \A t \in Tasks :
        task[t].pc = "returned" => Len(task[t].summary) <= task[t].max_length

\* the type discriminators of the outbound event contract
OutboundTypes ==
    {"session_created", "user_message_created", "ai_message_started",
     "content_delta", "function_call", "ai_message_completed", "error",
     "regeneration_started", "regeneration_completed"}

\* C25: every outbound event of an exchange, the ones of the failure paths
\* and of the streaming route's own exception handler included, carries a
\* type from the contract's set and a timestamp
C25_EveryEventTyped ==
    \A t \in Tasks : \A i \in 1..Len(task[t].events) :
        LET event == task[t].events[i]
        IN  /\ "type" \in DOMAIN event
            /\ event.type \in OutboundTypes
            /\ "timestamp" \in DOMAIN event

\* the system prompt supplied with the request of exchange t: system_prompt
\* is a parameter of generate_response only; the stream request has none
SuppliedSystemPrompt(t) ==
    IF task[t].kind = "generate" THEN task[t].system_prompt ELSE <<>>

C30_StorageErrorGeneric ==
    \A t \in Tasks : \A i \in 1..Len(task[t].events) :
        task[t].events[i].content # StorageFailure

\* the events that end a stream
Terminal(event) == event.type \in {"ai_message_completed", "error"}

TerminalEvents(t) == {i \in 1..Len(task[t].events) : Terminal(task[t].events[i])}

\* C31: a stream_response exchange that ran to its end has emitted exactly
\* one terminal event, ai_message_completed or error, as its last event, on
\* every path; and once a terminal event is out no event follows it
C31_ExactlyOneTerminalEvent ==
    /\ [](\A t \in Tasks :
            (task[t].kind = "stream" /\ task[t].pc = "done") =>
                /\ TerminalEvents(t) = {Len(task[t].events)}
                /\ Len(task[t].events) > 0)
    /\ [][\A t \in Tasks :
            (task[t].kind = "stream" /\ TerminalEvents(t) # {})
                => task'[t].events = task[t].events]_vars

\* an exchange whose session update raised after the finalize has ended on
\* the handler's error event, the only terminal event of its stream
C31_Witness ==
    \E t \in Tasks :
        /\ task[t].kind = "stream" /\ task[t].pc = "done"
        /\ task[t].ai_message_id # NoId
        /\ MessageById(task[t].ai_message_id).status = "completed"
        /\ LastEvent(t).type = "error"
        /\ LastEvent(t).content = StorageFailure
        /\ TerminalEvents(t) = {Len(task[t].events)}

\* the events of a stream that speak of its assistant message
AboutPlaceholder(event) ==
    \/ event.type \in {"ai_message_started", "content_delta", "function_call"}
    \/ event.type = "error" /\ event.content = <<"provider error">>

\* C32: in a stream_response exchange the step that emits ai_message_started
\* creates the placeholder whose id the event carries; every content_delta,
\* function_call and provider-error event carries that id; and the finalize
\* step writes the message with that id and no other message
C32_OnePlaceholderId ==
    [][\A t \in Tasks :
          task'[t].kind = "stream" =>
              /\ \A j \in 1..Len(task'[t].events) :
                    AboutPlaceholder(task'[t].events[j])
                        => /\ task'[t].events[j].message_id = task'[t].ai_message_id
                           /\ task'[t].ai_message_id # NoId
              /\ (task[t].pc = "create_placeholder" /\ task'[t].pc = "streaming")
                    => /\ Len(messages') = Len(messages) + 1
                       /\ IndexOf(messages, task'[t].ai_message_id) = 0
                       /\ messages'[Len(messages')] =
                              MessageDoc(task'[t].ai_message_id, task[t].user_id,
                                         task[t].session_id, "assistant", <<>>,
                                         "generating")
              /\ (task[t].pc = "streaming" /\ task'[t].pc = "update_session")
                    => /\ Len(messages') = Len(messages)
                       /\ \A i \in 1..Len(messages) :
                             messages'[i] # messages[i]
                                 => /\ messages[i].id = task[t].ai_message_id
                                    /\ messages'[i].status = "completed"]_vars

\* a stream whose placeholder is stored has emitted ai_message_started and a
\* content delta and has ended on the provider's error, all with one id,
\* while the other exchange holds a placeholder of its own
C32_Witness ==
    \E t \in Tasks : \E o \in Tasks \ {t} :
        /\ task[t].kind = "stream" /\ task[t].pc = "done"
        /\ Stored(task[t].ai_message_id)
        /\ \E j \in 1..Len(task[t].events) : task[t].events[j].type = "content_delta"
        /\ LastEvent(t).type = "error"
        /\ LastEvent(t).message_id = task[t].ai_message_id
        /\ task[o].ai_message_id \notin {NoId, task[t].ai_message_id}

\* the error chunks of the canonical stream of call t
ErrorChunks(t) ==
    {i \in 1..Len(task[t].events) : task[t].events[i].type = "error"}

\* C33: in the stream of stream_chat_completion a failure of the provider
\* call or of a chunk read becomes exactly one error chunk, the last chunk of
\* the stream, no error chunk is yielded before the stream has failed, and no
\* exception reaches the orchestrator
C33_FailureIsOneLastErrorChunk ==
    \A t \in Tasks :
        task[t].kind = "provider_stream" =>
            /\ task[t].pc # "escaped"
            /\ (task[t].pc = "ended" /\ task[t].failed)
                  => ErrorChunks(t) = {Len(task[t].events)}
            /\ task[t].pc # "ended" => ErrorChunks(t) = {}

\* a rate limit hit on a read after chunks were yielded has ended the stream
\* with the error chunk
C33_Witness ==
    \E t \in Tasks :
        /\ task[t].kind = "provider_stream"
        /\ task[t].pc = "ended" /\ task[t].failed
        /\ Len(task[t].events) >= 3
        /\ task[t].events[1].type = "content"
        /\ LastEvent(t).type = "error"
        /\ LastEvent(t).content[1] = "Rate limit exceeded: "

\* exchange t has made its finalize write
Finalized(t) ==
    /\ task[t].kind = "stream"
    /\ \/ task[t].pc = "update_session"
       \/ task[t].pc = "done" /\ LastEvent(t).type = "ai_message_completed"

\* two streaming exchanges on different sessions
OnDifferentSessions(t, o) ==
    /\ t # o
    /\ task[t].kind = "stream" /\ task[o].kind = "stream"
    /\ task[t].session_id # NoId /\ task[o].session_id # NoId
    /\ task[t].session_id # task[o].session_id

\* C34: two exchanges running concurrently on different sessions do not
\* interfere: under every interleaving a finalized assistant message holds
\* exactly the deltas of its own exchange's provider stream, in its own
\* session, and a step of an exchange writes only messages of its session
C34_ExchangesDoNotInterfere ==
    /\ [](\A t, o \in Tasks :
            (OnDifferentSessions(t, o) /\ Finalized(t)) =>
                /\ MessageById(task[t].ai_message_id).content = DeltaText(task[t].events)
                /\ MessageById(task[t].ai_message_id).session_id = task[t].session_id)
    /\ [][\A t \in Tasks :
            task'[t] # task[t] =>
                \A i \in 1..Len(messages') :
                    (i > Len(messages) \/ messages'[i] # messages[i])
                        => messages'[i].session_id = task'[t].session_id]_vars

\* both exchanges, on different sessions, have finalized, one with "Hel"
\* and the other with "lo "
C34_Witness ==
    \E t, o \in Tasks :
        /\ OnDifferentSessions(t, o)
        /\ Finalized(t) /\ Finalized(o)
        /\ MessageById(task[t].ai_message_id).content = <<"Hel">>
        /\ MessageById(task[o].ai_message_id).content = <<"lo ">>

\* no request is between two of its steps
AtRest == \A t \in Tasks : task[t].pc \in {"idle", "returned", "not_found", "raised"}

SessionMessages(session_id) ==
    SelectSeq(messages, LAMBDA m : m.session_id = session_id)

\* C35: a session update that runs concurrently with a message creation in
\* the same session does not overwrite what the creation wrote: when both
\* have finished the stored message count is the number of stored messages
\* of the session and last_activity is the creation time of the newest one
C35_UpdateKeepsSessionStats ==
    AtRest =>
        \A session_id \in DOMAIN sessions :
            /\ sessions[session_id].message_count = Len(SessionMessages(session_id))
            /\ sessions[session_id].last_activity =
                  CreatedAt(SessionMessages(session_id)[Len(SessionMessages(session_id))].id)

\* C36: after any sequence of archive, restore, soft delete and update
\* operations every session has is_archived true exactly when its status is
\* archived and a status among active, archived, deleted; and a restore
\* does not make a soft-deleted session active
C36_SessionStateConsistent ==
    /\ [](\A session_id \in DOMAIN sessions :
            /\ sessions[session_id].is_archived
                  <=> sessions[session_id].status = "archived"
            /\ sessions[session_id].status \in {"active", "archived", "deleted"})
    /\ [][\A t \in Tasks :
            (task'[t] # task[t] /\ task'[t].kind = "restore_session") =>
                \A session_id \in DOMAIN sessions :
                    (sessions[session_id].status = "deleted"
                        /\ session_id \in DOMAIN sessions')
                        => sessions'[session_id].status # "active"]_vars

\* C37: a regeneration that ends with a provider error leaves the stored
\* content of its target as it was: no step of regenerate_response other
\* than the completing finalize changes the content of any stored message,
\* so the partially accumulated content is never written
C37_FailedRegenerationKeepsContent ==
    [][\A t \in Tasks :
          (task'[t] # task[t] /\ task'[t].kind = "regenerate"
              /\ ~RegenerationCompletes(t))
              => /\ Len(messages') = Len(messages)
                 /\ \A i \in 1..Len(messages) :
                       messages'[i].content = messages[i].content]_vars

\* a regeneration has ended on the provider's error after a delta: the
\* target is still regenerating and does not hold the accumulated content
C37_Witness ==
    \E t \in Tasks :
        /\ task[t].kind = "regenerate" /\ task[t].pc = "done"
        /\ LastEvent(t).type = "error"
        /\ LastEvent(t).content = <<"provider error">>
        /\ Len(task[t].ai_response_content) > 0
        /\ MessageById(task[t].message_id).status = "regenerating"
        /\ MessageById(task[t].message_id).content # task[t].ai_response_content

NoSuchMessageFor(message_id, user_id) ==
    LET i == IndexOf(messages, message_id)
    IN  \/ i = 0
        \/ /\ messages[i].user_id # user_id
           /\ \A s \in DOMAIN sessions :
                 s = messages[i].session_id => sessions[s].user_id # user_id

\* C39: update_message for a message id that does not exist, or by a user who
\* neither wrote the message nor owns its session, returns no message and
\* leaves every stored message as it was; regenerate_response for such a
\* message emits one error event and nothing else, writes nothing and calls
\* no provider.
C39_NoAccessNoEffect ==
    [][\A t \in Tasks :
          (task[t].pc = "idle" /\ task'[t] # task[t]
              /\ NoSuchMessageFor(task'[t].message_id, task'[t].user_id))
              => /\ task'[t].kind = "update_message"
                    => /\ task'[t].pc = "not_found"
                       /\ messages' = messages
                       /\ sessions' = sessions
                 /\ task'[t].kind = "regenerate"
                    => /\ task'[t].pc = "done"
                       /\ task'[t].events =
                             <<Event("error", NoId, <<"Message not found">>)>>
                       /\ task'[t].provider_calls = 0
                       /\ messages' = messages
                       /\ sessions' = sessions]_vars

C39_Witness ==
    \E t, o \in Tasks :
        /\ task[t].kind = "update_message" /\ task[t].pc = "not_found"
        /\ task[t].user_id = "bob" /\ IndexOf(messages, task[t].message_id) # 0
        /\ task[o].kind = "regenerate" /\ task[o].pc = "done"
        /\ NoSuchMessageFor(task[o].message_id, task[o].user_id)

====
